---- MODULE Spec2Model ----
(***************************************************************************)
(* A model of the surrealguard static analyzer: the analysis context       *)
(* (crates/core/src/analyzer/context.rs), the statement dispatcher         *)
(* (analyzer/statements/mod.rs), the data statement analyzers              *)
(* (analyzer/statements/data/*.rs) and the top-level analyze driver        *)
(* (analyzer/mod.rs).                                                      *)
(*                                                                         *)
(* A Kind is a record tagged by its field k; a parsed statement is a       *)
(* record tagged by st; a Value is a record tagged by v; a Part of an      *)
(* Idiom is a record tagged by p.  A BTreeMap<String, Kind> is a function  *)
(* whose domain is the set of its keys.                                    *)
(***************************************************************************)
EXTENDS Naturals, Sequences, FiniteSets, TLC

VARIABLES definitions, inferred_params, auth, pc, call, kinds, result,
          query_ctx, parent, child

vars ==
    <<definitions, inferred_params, auth, pc, call, kinds, result, query_ctx,
      parent, child>>

(***************************************************************************)
(* Bounds of the model.                                                    *)
(***************************************************************************)
MaxDefs == 3
MaxParams == 1
MaxBatch == 2
MaxQueryParams == 2
MaxEntries == 2
MaxHops == 3
MaxNest == 1
MaxBlock == 2

(***************************************************************************)
(* Option<T> and Result<T, E>.                                             *)
(***************************************************************************)
None == [some |-> FALSE]
Some(x) == [some |-> TRUE, v |-> x]

Ok(x) == [ok |-> TRUE, kind |-> x]
Err(e) == [ok |-> FALSE, err |-> e]

(***************************************************************************)
(* surrealdb::sql::Kind, the variants the analyzer produces here.          *)
(***************************************************************************)
KNull == [k |-> "null"]
KAny == [k |-> "any"]
KBool == [k |-> "bool"]
KNumber == [k |-> "number"]
KString == [k |-> "string"]
KObject == [k |-> "object"]
KInt == [k |-> "int"]
KBytes == [k |-> "bytes"]
KArray(inner) == [k |-> "array", inner |-> inner]
KOption(inner) == [k |-> "option", inner |-> inner]
KEither(ks) == [k |-> "either", kinds |-> ks]
KRecord(tables) == [k |-> "record", tables |-> tables]
LitArray(elems) == [k |-> "litarray", elems |-> elems]
LitObject(fields) == [k |-> "litobject", fields |-> fields]
\* Kind::Literal of a string, a number and a bool.
LitString(s) == [k |-> "litstring", s |-> s]
LitNumber(n) == [k |-> "litnumber", n |-> n]
LitBool(b) == [k |-> "litbool", b |-> b]

EmptyMap == [x \in {} |-> KNull]

\* BTreeMap::insert: the value replaces an earlier one under the same key.
MapInsert(m, key, val) ==
    [x \in (DOMAIN m) \cup {key} |-> IF x = key THEN val ELSE m[x]]

\* BTreeMap::remove.
MapRemove(m, key) == [x \in (DOMAIN m) \ {key} |-> m[x]]

(***************************************************************************)
(* AnalyzerError.                                                          *)
(***************************************************************************)
UnexpectedSyntax == [e |-> "UnexpectedSyntax"]
MissingAuth == [e |-> "MissingAuth"]
TableNotFound(t) == [e |-> "TableNotFound", table |-> t]
FieldNotFound(f, c) == [e |-> "FieldNotFound", field |-> f, context |-> c]
SchemaViolation(m, t, f) ==
    [e |-> "SchemaViolation", message |-> m, table |-> t, field |-> f]
UnexpectedSyntaxWithContext(n) == [e |-> "UnexpectedSyntax", statement |-> n]
FunctionNotFound(name) == [e |-> "FunctionNotFound", name |-> name]
InvalidFunctionCall(function, message) ==
    [e |-> "InvalidFunctionCall", function |-> function, message |-> message]
FunctionReturnTypeMismatch(declared, inferred) ==
    [e |-> "FunctionReturnTypeMismatch", declared |-> declared,
     inferred |-> inferred]
TypeMismatch(expected, found) ==
    [e |-> "TypeMismatch", expected |-> expected, found |-> found]

(***************************************************************************)
(* Strings.  Identifiers that are not plain (letters, digits, underscore)  *)
(* are printed between backticks by surrealdb's Ident (the model writes    *)
(* the backtick as a single quote); str::to_lowercase changes only the     *)
(* names of the model that hold an upper-case letter, and str::trim only   *)
(* the ones with surrounding whitespace.                                   *)
(***************************************************************************)
EscapedIdents == {".address"}

Backtick == "'"

IdentToString(n) ==
    IF n \in EscapedIdents THEN Backtick \o n \o Backtick ELSE n

ToLowercase(s) ==
    CASE s = "Name" -> "name"
      [] s = "User" -> "user"
      [] OTHER -> s

Trim(s) ==
    CASE s = " name " -> "name"
      [] s = " user " -> "user"
      [] OTHER -> s

(***************************************************************************)
(* surrealdb::sql::Part and Idiom.  Display of a field part is ".name";    *)
(* Display of an idiom prints a leading field part without the dot and     *)
(* every other part by its own Display, with no separator.                 *)
(***************************************************************************)
FieldPart(n) == [p |-> "field", name |-> n]

PartToString(part) == "." \o IdentToString(part.name)

\* impl From<String> for Part: a field part named by the whole string.
PartFromString(s) == FieldPart(s)

RECURSIVE JoinParts(_)
JoinParts(parts) ==
    IF parts = <<>> THEN ""
    ELSE PartToString(Head(parts)) \o JoinParts(Tail(parts))

IdiomToString(idiom) ==
    IF idiom = <<>> THEN ""
    ELSE IdentToString(Head(idiom).name) \o JoinParts(Tail(idiom))

(***************************************************************************)
(* surrealdb::sql::Value, the variants the statements of the model use,    *)
(* and the DEFINE statements the context stores.                           *)
(***************************************************************************)
VTable(name) == [v |-> "table", name |-> name]
VThing(tb, id) == [v |-> "thing", tb |-> tb, id |-> id]
VParam(name) == [v |-> "param", name |-> name]
VStrand(s) == [v |-> "strand", s |-> s]
VNumber(n) == [v |-> "number", n |-> n]
VIdiom(parts) == [v |-> "idiom", parts |-> parts]
\* An object value: its (key, value) pairs in key order, as BTreeMap iterates.
VObject(pairs) == [v |-> "object", pairs |-> pairs]
VArray(elems) == [v |-> "array", elems |-> elems]
VFunction(func) == [v |-> "function", func |-> func]
VBlock(block) == [v |-> "block", block |-> block]
VBool(b) == [v |-> "bool", b |-> b]

\* TableType: Normal, or Relation with its optional from and to kinds.
TableNormal == [t |-> "normal"]
TableRelation(from, to) == [t |-> "relation", from |-> from, to |-> to]

\* Permission: None, Full, or Specific with its expression; Permissions holds
\* one for each of select, create, update and delete.
PermissionNone == [perm |-> "none"]
PermissionFull == [perm |-> "full"]
PermissionSpecific(value) == [perm |-> "specific", value |-> value]
Permissions(select, create, update, delete) ==
    [select |-> select, create |-> create, update |-> update,
     delete |-> delete]
PermissionsNone ==
    Permissions(PermissionNone, PermissionNone, PermissionNone,
                PermissionNone)

DefineTableStatement(name, kind, permissions) ==
    [d |-> "table", name |-> name, kind |-> kind,
     permissions |-> permissions]
DefineFieldStatement(what, name, kind, value, assert, permissions) ==
    [d |-> "field", what |-> what, name |-> name, kind |-> kind,
     value |-> value, assert |-> assert, permissions |-> permissions,
     readonly |-> FALSE]
\* The definitions without PERMISSIONS, ASSERT and VALUE clauses.
DefineTable(name, kind) == DefineTableStatement(name, kind, PermissionsNone)
DefineField(what, name, kind) ==
    DefineFieldStatement(what, name, kind, None, None, PermissionsNone)
DefineFunction(name, args, block, returns) ==
    [d |-> "function", name |-> name, args |-> args, block |-> block,
     returns |-> returns, comment |-> None, if_not_exists |-> FALSE]
DefineIndex(what, name, cols) ==
    [d |-> "index", what |-> what, name |-> name, cols |-> cols,
     index |-> "Idx"]

(***************************************************************************)
(* AnalyzerContext.  A context value is the record of its fields.          *)
(***************************************************************************)
NewContext == [definitions |-> <<>>, inferred_params |-> <<>>, auth |-> None]

append_definition(ctx, definition) ==
    [ctx EXCEPT !.definitions = Append(@, definition)]

add_inferred_param(ctx, name, kind) ==
    [ctx EXCEPT !.inferred_params = Append(@, <<name, kind>>)]

\* Iterator::find: of the positions that match, the first, and 0 if none.
FirstMatch(hits) ==
    IF hits = {} THEN 0 ELSE CHOOSE i \in hits : \A j \in hits : i <= j

get_inferred_param(ctx, name) ==
    LET i == FirstMatch({j \in 1..Len(ctx.inferred_params) :
                            ctx.inferred_params[j][1] = name})
    IN  IF i = 0 THEN None ELSE Some(ctx.inferred_params[i][2])

get_all_inferred_params(ctx) == ctx.inferred_params

find_table_definition(ctx, table_name) ==
    LET i == FirstMatch({j \in 1..Len(ctx.definitions) :
                            /\ ctx.definitions[j].d = "table"
                            /\ ctx.definitions[j].name = table_name})
    IN  IF i = 0 THEN None ELSE Some(ctx.definitions[i])

get_field_definitions(ctx, table_name) ==
    SelectSeq(ctx.definitions,
              LAMBDA def : def.d = "field" /\ def.what = table_name)

\* The parent path find_field_definition retries with: every part but the
\* last, each printed and read back as a field part.
ParentIdiom(field_idiom) ==
    [i \in 1..(Len(field_idiom) - 1) |->
        PartFromString(PartToString(field_idiom[i]))]

RECURSIVE find_field_definition(_, _, _)
find_field_definition(ctx, table_name, field_idiom) ==
    LET i == FirstMatch({j \in 1..Len(ctx.definitions) :
                            /\ ctx.definitions[j].d = "field"
                            /\ ctx.definitions[j].what = table_name
                            /\ ctx.definitions[j].name = field_idiom})
    IN  IF i # 0 THEN Some(ctx.definitions[i])
        ELSE IF Len(field_idiom) > 1
             THEN find_field_definition(ctx, table_name,
                                        ParentIdiom(field_idiom))
             ELSE None

\* The loop of build_full_table_type over the field definitions, in order.
RECURSIVE CollectFieldTypes(_, _)
CollectFieldTypes(field_defs, field_types) ==
    IF field_defs = <<>> THEN field_types
    ELSE LET field_def == Head(field_defs)
         IN  CollectFieldTypes(
                 Tail(field_defs),
                 IF field_def.kind.some
                 THEN MapInsert(field_types, IdiomToString(field_def.name),
                                field_def.kind.v)
                 ELSE field_types)

\* A table type built from the field definitions of every table.
build_type_of_all_fields(ctx, table_name) ==
    LitObject(CollectFieldTypes(
                  SelectSeq(ctx.definitions, LAMBDA def : def.d = "field"),
                  EmptyMap))

build_full_table_type(ctx, table_name) ==
    LitObject(CollectFieldTypes(get_field_definitions(ctx, table_name),
                                EmptyMap))

\* A lookup that reads the endpoints of the relation the other way round.
get_relation_source(ctx, relation_table, is_reverse) ==
    LET found == find_table_definition(ctx, relation_table)
    IN  IF found.some /\ found.v.kind.t = "relation"
        THEN LET side == IF ~is_reverse THEN found.v.kind.from
                         ELSE found.v.kind.to
             IN  IF side.some /\ side.v.k = "record" /\ side.v.tables # <<>>
                 THEN Some(side.v.tables[1])
                 ELSE None
        ELSE None

get_relation_target(ctx, relation_table, is_reverse) ==
    LET found == find_table_definition(ctx, relation_table)
    IN  IF found.some /\ found.v.kind.t = "relation"
        THEN LET side == IF is_reverse THEN found.v.kind.from
                         ELSE found.v.kind.to
             IN  IF side.some /\ side.v.k = "record" /\ side.v.tables # <<>>
                 THEN Some(side.v.tables[1])
                 ELSE None
        ELSE None

infer_param_from_field(ctx, table, field, param) ==
    LET found == find_field_definition(ctx, table, field)
    IN  IF found.some
        THEN IF found.v.kind.some
             THEN [ctx |-> add_inferred_param(ctx, param, found.v.kind.v),
                   err |-> None]
             ELSE [ctx |-> ctx,
                   err |-> Some(SchemaViolation("Field type not defined",
                                   Some(table), Some(IdiomToString(field))))]
        ELSE [ctx |-> ctx,
              err |-> Some(FieldNotFound(IdiomToString(field), table))]

\* An inference that records the parameter without looking at the table.
infer_param_untyped(ctx, table, param) ==
    [ctx |-> add_inferred_param(ctx, param, KAny), err |-> None]

infer_param_from_table(ctx, table, param) ==
    [ctx |-> add_inferred_param(ctx, param, build_full_table_type(ctx, table)),
     err |-> None]

\* AnalyzerContext::resolve on the value variants of the model.
RECURSIVE resolve(_)
resolve(value) ==
    CASE value.v = "table" -> KRecord(<<value.name>>)
      [] value.v = "thing" -> KRecord(<<value.tb>>)
      [] value.v = "bool" -> KBool
      [] value.v = "strand" -> KString
      [] value.v = "number" -> KNumber
      [] value.v = "object" -> KObject
      [] value.v = "array" ->
            IF value.elems = <<>> THEN KArray(KAny)
            ELSE KArray(resolve(value.elems[1]))
      [] value.v = "function" -> [k |-> "function"]
      [] value.v = "block" -> KAny
      [] value.v = "param" -> KAny
      [] value.v = "idiom" -> KAny

(***************************************************************************)
(* The composed context (analyzer/context/mod.rs): one sub-context per     *)
(* category, each a HashMap from a name to an entry.                       *)
(***************************************************************************)
ParamsContextNew == [parameters |-> EmptyMap, variables |-> EmptyMap]

DefaultContext ==
    [schema |-> [tables |-> EmptyMap, analyzers |-> EmptyMap,
                 validation_rules |-> EmptyMap],
     params |-> ParamsContextNew,
     functions |-> [functions |-> EmptyMap],
     indexes |-> [indexes |-> EmptyMap],
     events |-> [events |-> EmptyMap],
     tokens |-> [tokens |-> EmptyMap]]

\* A create_child that clones the parameters of the parent too.
create_child_clone(self) == self

create_child(self) ==
    [schema |-> self.schema,
     params |-> ParamsContextNew,
     functions |-> self.functions,
     indexes |-> self.indexes,
     events |-> self.events,
     tokens |-> self.tokens]

add_table(self, name, table_type) ==
    [self EXCEPT !.schema.tables = MapInsert(@, name, table_type)]

get_table_type(self, name) ==
    IF name \in DOMAIN self.schema.tables
    THEN Some(self.schema.tables[name]) ELSE None

add_parameter(self, name, param_type) ==
    [self EXCEPT !.params.parameters = MapInsert(@, name, param_type)]

get_parameter_type(self, name) ==
    IF name \in DOMAIN self.params.parameters
    THEN Some(self.params.parameters[name]) ELSE None

add_function(self, name, signature) ==
    [self EXCEPT !.functions.functions = MapInsert(@, name, signature)]

add_index(self, name, definition) ==
    [self EXCEPT !.indexes.indexes = MapInsert(@, name, definition)]

add_event(self, name, definition) ==
    [self EXCEPT !.events.events = MapInsert(@, name, definition)]

\* The number of entries a context holds.
Entries(self) ==
    Cardinality(DOMAIN self.schema.tables)
    + Cardinality(DOMAIN self.params.parameters)
    + Cardinality(DOMAIN self.functions.functions)
    + Cardinality(DOMAIN self.indexes.indexes)
    + Cardinality(DOMAIN self.events.events)

(***************************************************************************)
(* FETCH resolution (KindFetchExt::resolve_fetch).                         *)
(***************************************************************************)
\* A fetch that leaves every link as it is.
resolve_fetch_nothing(self, fetch_chain, ctx) == self

RECURSIVE resolve_fetch(_, _, _)
resolve_fetch(self, fetch_chain, ctx) ==
    IF fetch_chain = <<>>
    THEN CASE self.k = "record" ->
                IF self.tables # <<>>
                THEN build_full_table_type(ctx, self.tables[1])
                ELSE self
           [] self.k = "option" ->
                IF self.inner.k = "record" /\ self.inner.tables # <<>>
                THEN KOption(build_full_table_type(ctx, self.inner.tables[1]))
                ELSE self
           [] OTHER -> self
    ELSE CASE self.k = "record" ->
                LET target == ToLowercase(Trim(fetch_chain[1]))
                    i == FirstMatch({j \in 1..Len(self.tables) :
                             ToLowercase(Trim(self.tables[j])) = target})
                IN  IF i # 0
                    THEN resolve_fetch(
                             build_full_table_type(ctx, self.tables[i]),
                             Tail(fetch_chain), ctx)
                    ELSE self
           [] self.k = "litobject" ->
                LitObject(
                  [key \in DOMAIN self.fields |->
                     LET value == self.fields[key]
                     IN  IF ToLowercase(Trim(key)) = fetch_chain[1]
                         THEN IF /\ value.k = "array"
                                 /\ value.inner.k = "record"
                                 /\ value.inner.tables # <<>>
                              THEN LitArray(<<build_full_table_type(
                                                ctx, value.inner.tables[1])>>)
                              ELSE resolve_fetch(value, Tail(fetch_chain), ctx)
                         ELSE value])
           [] self.k = "array" ->
                KArray(resolve_fetch(self.inner, fetch_chain, ctx))
           [] self.k = "either" ->
                KEither([i \in 1..Len(self.kinds) |->
                           resolve_fetch(self.kinds[i], fetch_chain, ctx)])
           [] self.k = "option" ->
                KOption(resolve_fetch(self.inner, fetch_chain, ctx))
           [] OTHER -> self

\* fetch.0.to_string().trim().to_lowercase().split('.'): the printed idiom cut
\* at its dots, which for parts with plain names is one segment per part.
FetchSegments(fetch) ==
    [i \in 1..Len(fetch) |-> ToLowercase(Trim(IdentToString(fetch[i].name)))]

\* The loop over stmt.fetch that applies every FETCH path in turn.
RECURSIVE ApplyFetches(_, _, _)
ApplyFetches(kind, fetches, ctx) ==
    IF fetches = <<>> THEN kind
    ELSE ApplyFetches(resolve_fetch(kind, FetchSegments(Head(fetches)), ctx),
                      Tail(fetches), ctx)

FetchAll(kind, fetch, ctx) ==
    IF fetch.some THEN ApplyFetches(kind, fetch.v, ctx) ELSE kind

(***************************************************************************)
(* SELECT (statements/data/select.rs).                                     *)
(***************************************************************************)
normalized_part(part) == ToLowercase(Trim(part.name))

\* A removal that compares the keys with the OMIT segment as they are.
remove_exact_field(obj, path) ==
    IF path = <<>> THEN obj
    ELSE [key \in (DOMAIN obj) \ {path[1].name} |-> obj[key]]

RECURSIVE remove_nested_field(_, _)
remove_nested_field(obj, path) ==
    IF path = <<>> THEN obj
    ELSE LET omit_key == normalized_part(path[1])
             hit == {key \in DOMAIN obj : ToLowercase(Trim(key)) = omit_key}
         IN  IF Len(path) = 1
             THEN [key \in (DOMAIN obj) \ hit |-> obj[key]]
             ELSE [key \in DOMAIN obj |->
                     IF key \in hit /\ obj[key].k = "litobject"
                     THEN LitObject(remove_nested_field(obj[key].fields,
                                                        Tail(path)))
                     ELSE obj[key]]

\* The loop of select.rs's build_full_table_type over the OMIT idioms.
RECURSIVE RemoveOmitted(_, _)
RemoveOmitted(field_types, idioms) ==
    IF idioms = <<>> THEN field_types
    ELSE RemoveOmitted(remove_nested_field(field_types, Head(idioms)),
                       Tail(idioms))

select_build_full_table_type(ctx, table_name, omit_idioms) ==
    LET field_types ==
            CollectFieldTypes(get_field_definitions(ctx, table_name), EmptyMap)
    IN  LitObject(IF omit_idioms.some
                  THEN RemoveOmitted(field_types, omit_idioms.v)
                  ELSE field_types)

should_omit_field(field_path, omit_idioms) ==
    /\ omit_idioms.some
    /\ \E i \in 1..Len(omit_idioms.v) : omit_idioms.v[i] = field_path

\* The FROM target of analyze_select: Ok(raw table name) or the error.
SelectTarget(ctx, table_value) ==
    CASE table_value.v = "table" -> Ok(table_value.name)
      [] table_value.v = "thing" -> Ok(table_value.tb)
      [] table_value.v = "param" ->
            IF Trim(table_value.name) = "$auth"
            THEN IF ctx.auth.some THEN Ok(ctx.auth.v) ELSE Err(MissingAuth)
            ELSE Err(UnexpectedSyntax)
      [] OTHER -> Err(UnexpectedSyntax)

\* A VALUE branch that takes the first field expression of however many
\* there are, and returns its kind in Array instead of a literal array.
SelectValueFirst(ctx, stmt, table_name) ==
    IF stmt.expr = <<>> \/ stmt.expr[1].f # "single" THEN Ok(KArray(KAny))
    ELSE LET found == find_field_definition(ctx, table_name,
                                            stmt.expr[1].expr.parts)
         IN  IF found.some /\ found.v.kind.some
             THEN Ok(KArray(found.v.kind.v))
             ELSE Ok(KArray(KAny))

\* The VALUE branch of analyze_select.
SelectValue(ctx, stmt, table_name) ==
    IF Len(stmt.expr) # 1 THEN Err(UnexpectedSyntax)
    ELSE LET field == stmt.expr[1]
         IN  IF field.f # "single" \/ field.expr.v # "idiom"
             THEN Err(UnexpectedSyntax)
             ELSE LET field_idiom == field.expr.parts
                      found == find_field_definition(ctx, table_name,
                                                     field_idiom)
                  IN  IF found.some
                      THEN LET declared == IF found.v.kind.some
                                           THEN found.v.kind.v ELSE KAny
                           IN  Ok(LitArray(
                                    <<FetchAll(declared, stmt.fetch, ctx)>>))
                      ELSE Err(FieldNotFound(IdiomToString(field_idiom),
                                             table_name))

\* The loop of analyze_select over an explicit field list: Ok(field_types)
\* or the first error.
RECURSIVE SelectFields(_, _, _, _, _)
SelectFields(ctx, stmt, table_name, fields, field_types) ==
    IF fields = <<>> THEN Ok(field_types)
    ELSE LET field == Head(fields)
         IN  IF field.f # "single" \/ field.expr.v # "idiom"
             THEN Err(UnexpectedSyntax)
             ELSE LET field_idiom == field.expr.parts
                      found == find_field_definition(ctx, table_name,
                                                     field_idiom)
                  IN  IF should_omit_field(field_idiom, stmt.omit)
                      THEN SelectFields(ctx, stmt, table_name, Tail(fields),
                                        field_types)
                      ELSE IF found.some
                      THEN LET declared == IF found.v.kind.some
                                           THEN found.v.kind.v ELSE KAny
                               resolved ==
                                   FetchAll(declared, stmt.fetch, ctx)
                               field_name ==
                                   IF field.alias.some THEN field.alias.v
                                   ELSE IdiomToString(field_idiom)
                           IN  SelectFields(ctx, stmt, table_name,
                                   Tail(fields),
                                   MapInsert(field_types, field_name,
                                             resolved))
                      ELSE Err(FieldNotFound(IdiomToString(field_idiom),
                                             table_name))

\* A last step that wraps in Array whether ONLY is there or not.
SelectWrapAlways(stmt, transformed_kind) == KArray(transformed_kind)

\* The last step of analyze_select: ONLY keeps the type, otherwise Array.
SelectWrap(stmt, transformed_kind) ==
    IF stmt.only THEN transformed_kind ELSE KArray(transformed_kind)

\* base_kind of analyze_select: Ok(field_types) or the error.
SelectBase(ctx, stmt, table_name) ==
    IF \/ stmt.expr = <<>>
       \/ \E i \in 1..Len(stmt.expr) : stmt.expr[i].f = "all"
    THEN Ok(select_build_full_table_type(ctx, table_name, stmt.omit).fields)
    ELSE SelectFields(ctx, stmt, table_name, stmt.expr, EmptyMap)

\* The end of analyze_select: FETCH on the base kind, then the wrapping.
SelectFinish(ctx, stmt, base) ==
    IF ~base.ok THEN base
    ELSE Ok(SelectWrap(stmt, FetchAll(LitObject(base.kind), stmt.fetch, ctx)))

\* analyze_select without the lookup of the table definition.
SelectFromUnchecked(ctx, stmt, table_name) ==
    IF stmt.value
    THEN SelectValue(ctx, stmt, table_name)
    ELSE SelectFinish(ctx, stmt, SelectBase(ctx, stmt, table_name))

\* analyze_select once the FROM target has given a table name.  No table
\* name of the model holds a ':', so the name is used as it is.
SelectFrom(ctx, stmt, table_name) ==
    IF ~find_table_definition(ctx, table_name).some
    THEN Err(TableNotFound(table_name))
    ELSE IF stmt.value
         THEN SelectValue(ctx, stmt, table_name)
         ELSE SelectFinish(ctx, stmt, SelectBase(ctx, stmt, table_name))

\* The match on the FROM target: its error, or the rest of analyze_select.
SelectOn(ctx, stmt, target) ==
    IF ~target.ok THEN target ELSE SelectFrom(ctx, stmt, target.kind)

analyze_select(ctx, stmt) ==
    IF stmt.what = <<>> THEN Err(UnexpectedSyntax)
    ELSE SelectOn(ctx, stmt, SelectTarget(ctx, stmt.what[1]))

(***************************************************************************)
(* Graph traversal paths (analyze_graph_path).  A graph part has a         *)
(* direction and subjects; the modifier of a path is its last .* or        *)
(* destructuring part.                                                     *)
(***************************************************************************)
GraphPart(dir, what) == [p |-> "graph", dir |-> dir, what |-> what]
AllPart == [p |-> "all"]
DestructurePart(fields) == [p |-> "destructure", fields |-> fields]

SubjectTable(name) == [s |-> "table", name |-> name]
SubjectRange(name) == [s |-> "range", name |-> name]

get_table_from_graph_subject(subject) ==
    CASE subject.s = "table" -> subject.name
      [] subject.s = "range" -> subject.name
      [] OTHER -> ""

IsGraph(part) == part.p = "graph"

\* final_modifier: the last All or Destructure part of the idiom, the
\* destructured fields as the strings they print as.
FinalModifier(field_idiom) ==
    LET at == {i \in 1..Len(field_idiom) :
                  field_idiom[i].p \in {"all", "destructure"}}
    IN  IF at = {} THEN None
        ELSE LET part == field_idiom[CHOOSE i \in at : \A j \in at : j <= i]
             IN  IF part.p = "all" THEN Some([m |-> "all"])
                 ELSE Some([m |-> "destructure",
                            fields |-> [i \in 1..Len(part.fields) |->
                                           IdentToString(part.fields[i])]])

restrict_type(kind, fields) ==
    IF kind.k = "litobject"
    THEN LitObject([key \in {n \in DOMAIN kind.fields :
                                \E i \in 1..Len(fields) : fields[i] = n}
                       |-> kind.fields[key]])
    ELSE kind

\* inner_type: the type the last hop holds.
GraphInnerType(context, table, final_modifier) ==
    IF ~final_modifier.some THEN KRecord(<<table>>)
    ELSE IF final_modifier.v.m = "all"
    THEN select_build_full_table_type(context, table, None)
    ELSE restrict_type(select_build_full_table_type(context, table, None),
                       final_modifier.v.fields)

\* key: the table name behind the arrow of the direction.
GraphKey(graph) ==
    LET table == get_table_from_graph_subject(graph.what[1])
    IN  CASE graph.dir = "In" -> Ok("<-" \o table)
          [] graph.dir = "Out" -> Ok("->" \o table)
          [] OTHER -> Err(UnexpectedSyntax)

\* A level that holds the inner type in a single-element array.
GraphLevelArray(key, current) ==
    LitObject(MapInsert(EmptyMap, key, LitArray(<<current>>)))

\* map.insert(key, current): one object level of an outer hop.
GraphLevel(key, current) == LitObject(MapInsert(EmptyMap, key, current))

\* The loop over graph_parts[..len - 1] in reverse: graphs is what is left.
RECURSIVE GraphWrap(_, _)
GraphWrap(graphs, current) ==
    IF graphs = <<>> THEN Ok(current)
    ELSE LET key == GraphKey(graphs[Len(graphs)])
         IN  IF ~key.ok THEN key
             ELSE GraphWrap(SubSeq(graphs, 1, Len(graphs) - 1),
                            GraphLevel(key.kind, current))

analyze_graph_path(context, field_idiom) ==
    LET graph_parts == SelectSeq(field_idiom, IsGraph)
        final_modifier == FinalModifier(field_idiom)
    IN  IF graph_parts = <<>> THEN Err(UnexpectedSyntax)
        ELSE LET last_graph == graph_parts[Len(graph_parts)]
                 table == get_table_from_graph_subject(last_graph.what[1])
                 inner_type == GraphInnerType(context, table, final_modifier)
                 key == GraphKey(last_graph)
             IN  IF ~key.ok THEN key
                 ELSE GraphWrap(
                          SubSeq(graph_parts, 1, Len(graph_parts) - 1),
                          LitObject(MapInsert(EmptyMap, key.kind,
                                              LitArray(<<inner_type>>))))

(***************************************************************************)
(* CREATE, UPDATE, UPSERT, INSERT, RELATE and DELETE.  An analyzer that    *)
(* takes the context by &mut returns the context it leaves and its result. *)
(***************************************************************************)
\* for (field, value) in ...: infer every parameter from its field, stopping
\* at the first error; pairs are <<idiom, value>>.
RECURSIVE InferFromFields(_, _, _)
InferFromFields(ctx, table_name, pairs) ==
    IF pairs = <<>> THEN [ctx |-> ctx, err |-> None]
    ELSE LET idiom == Head(pairs)[1]
             value == Head(pairs)[2]
         IN  IF value.v = "param"
             THEN LET step == infer_param_from_field(ctx, table_name, idiom,
                                                     value.name)
                  IN  IF step.err.some THEN step
                      ELSE InferFromFields(step.ctx, table_name, Tail(pairs))
             ELSE InferFromFields(ctx, table_name, Tail(pairs))

\* Idiom::from(field.clone()) on every key of an object value.
ObjectPairs(obj) ==
    [i \in 1..Len(obj.pairs) |->
        <<(<<FieldPart(obj.pairs[i][1])>>), obj.pairs[i][2]>>]

\* The arms "Value::Param => infer from the table, Value::Object => infer
\* every field, _ => nothing" shared by CONTENT, MERGE, PATCH and REPLACE.
InferFromPayload(ctx, table_name, value) ==
    CASE value.v = "param" -> infer_param_from_table(ctx, table_name,
                                                     value.name)
      [] value.v = "object" -> InferFromFields(ctx, table_name,
                                               ObjectPairs(value))
      [] OTHER -> [ctx |-> ctx, err |-> None]

\* The record table a what-clause resolves to in CREATE/UPDATE/UPSERT/INSERT.
TargetTable(what) ==
    LET kind == resolve(what)
    IN  IF kind.k = "record" /\ kind.tables # <<>>
        THEN Some(kind.tables[1]) ELSE None

\* The tail shared by the analyzers: the error of the inference, or
\* Array<full table type>.
TargetType(inferred, table_name) ==
    IF inferred.err.some
    THEN [ctx |-> inferred.ctx, res |-> Err(inferred.err.v)]
    ELSE [ctx |-> inferred.ctx,
          res |-> Ok(KArray(build_full_table_type(inferred.ctx, table_name)))]

analyze_create(ctx, stmt) ==
    LET target == TargetTable(stmt.what[1])
    IN  IF ~target.some THEN [ctx |-> ctx, res |-> Err(UnexpectedSyntax)]
        ELSE LET inferred ==
                   IF ~stmt.data.some THEN [ctx |-> ctx, err |-> None]
                   ELSE CASE stmt.data.v.d = "content" ->
                               InferFromPayload(ctx, target.v,
                                                stmt.data.v.value)
                          [] stmt.data.v.d = "single" ->
                               IF stmt.data.v.value.v = "param"
                               THEN infer_param_from_table(ctx, target.v,
                                        stmt.data.v.value.name)
                               ELSE [ctx |-> ctx, err |-> None]
                          [] stmt.data.v.d = "values" ->
                               InferFromFields(ctx, target.v,
                                               stmt.data.v.pairs)
                          [] OTHER -> [ctx |-> ctx, err |-> None]
             IN  TargetType(inferred, target.v)

analyze_update(ctx, stmt) ==
    LET target == TargetTable(stmt.what[1])
    IN  IF ~target.some THEN [ctx |-> ctx, res |-> Err(UnexpectedSyntax)]
        ELSE LET inferred ==
                   IF ~stmt.data.some THEN [ctx |-> ctx, err |-> None]
                   ELSE CASE stmt.data.v.d \in {"set", "update"} ->
                               InferFromFields(ctx, target.v,
                                               stmt.data.v.pairs)
                          [] stmt.data.v.d \in {"content", "merge", "patch",
                                                "replace"} ->
                               InferFromPayload(ctx, target.v,
                                                stmt.data.v.value)
                          [] OTHER -> [ctx |-> ctx, err |-> None]
             IN  TargetType(inferred, target.v)

analyze_upsert(ctx, stmt) ==
    LET target == TargetTable(stmt.what[1])
    IN  IF ~target.some THEN [ctx |-> ctx, res |-> Err(UnexpectedSyntax)]
        ELSE [ctx |-> ctx,
              res |-> Ok(KArray(build_full_table_type(ctx, target.v)))]

analyze_insert(ctx, stmt) ==
    LET target == TargetTable(stmt.into)
    IN  IF ~target.some THEN [ctx |-> ctx, res |-> Err(UnexpectedSyntax)]
        ELSE [ctx |-> ctx,
              res |-> Ok(KArray(build_full_table_type(ctx, target.v)))]

\* "if let Value::Param(p) = operand, and the relation names a table on
\* that side, infer p from that table" of analyze_relate.
InferEndpoint(ctx, relation_table, operand, is_reverse) ==
    LET side == get_relation_target(ctx, relation_table, is_reverse)
    IN  IF operand.v = "param" /\ side.some
        THEN infer_param_from_table(ctx, side.v, operand.name)
        ELSE [ctx |-> ctx, err |-> None]

analyze_relate(ctx, stmt) ==
    LET relation ==
            CASE stmt.kind.v = "table" -> Some(stmt.kind.name)
              [] stmt.kind.v = "thing" -> Some(stmt.kind.tb)
              [] stmt.kind.v = "idiom" -> Some(IdiomToString(stmt.kind.parts))
              [] OTHER -> None
    IN  IF ~relation.some THEN [ctx |-> ctx, res |-> Err(UnexpectedSyntax)]
        ELSE LET from == InferEndpoint(ctx, relation.v, stmt.from, TRUE)
                 with == InferEndpoint(from.ctx, relation.v, stmt.with, FALSE)
                 inferred ==
                   IF stmt.data.some /\ stmt.data.v.d = "content"
                   THEN InferFromPayload(with.ctx, relation.v,
                                         stmt.data.v.value)
                   ELSE [ctx |-> with.ctx, err |-> None]
             IN  TargetType(inferred, relation.v)

\* A DELETE analyzer that looks its target table up, as SELECT does.
analyze_delete_checked(ctx, stmt) ==
    IF /\ stmt.what[1].v = "table"
       /\ ~find_table_definition(ctx, stmt.what[1].name).some
    THEN [ctx |-> ctx, res |-> Err(TableNotFound(stmt.what[1].name))]
    ELSE [ctx |-> ctx, res |-> Ok(LitArray(<<>>))]

analyze_delete(ctx, stmt) == [ctx |-> ctx, res |-> Ok(LitArray(<<>>))]

(***************************************************************************)
(* Function calls (analyzer/functions/mod.rs, math.rs, custom.rs).  The    *)
(* name of a call is kept as its segments, the pieces split("::") gives;   *)
(* a call without a name (a script) has none.  The calls of the model are  *)
(* in the namespaces math, record, session, sleep, count, meta, encoding,  *)
(* http and fn and in unknown ones; the blocks of the function definitions *)
(* hold at most one RETURN and nothing else.                               *)
(***************************************************************************)
FunctionCall(name, args) == [name |-> name, args |-> args]

\* name.to_string(): the segments with "::" between them.
RECURSIVE JoinName(_)
JoinName(segments) ==
    IF Len(segments) = 1 THEN segments[1]
    ELSE segments[1] \o "::" \o JoinName(Tail(segments))

MathConstants ==
    {"e", "pi", "inf", "neg_inf", "tau", "ln_10", "ln_2", "log10_2",
     "log10_e", "log2_10", "log2_e", "frac_1_pi", "frac_1_sqrt_2",
     "frac_2_pi", "frac_2_sqrt_pi", "frac_pi_2", "frac_pi_3", "frac_pi_4",
     "frac_pi_6", "frac_pi_8", "sqrt_2"}

MathSingleNumber ==
    {"abs", "acos", "acot", "asin", "atan", "ceil", "floor", "ln", "log10",
     "log2", "rad2deg", "round", "sign", "sin", "sqrt", "tan", "deg2rad"}

MathAggregates ==
    {"mean", "median", "midhinge", "min", "mode", "nearestrank",
     "percentile", "product", "stddev", "sum", "spread", "trimean",
     "variance"}

\* args.len() == n and every argument resolves to Number.
NumberArgs(args, n) ==
    /\ Len(args) = n
    /\ \A i \in 1..Len(args) : resolve(args[i]) = KNumber

\* Ok(kind) when the arguments passed the check, UnexpectedSyntax otherwise.
MathChecked(ok, kind) == IF ok THEN Ok(kind) ELSE Err(UnexpectedSyntax)

analyze_math(ctx, func) ==
    LET segments == func.name
        args == func.args
    IN  IF Len(segments) < 2 THEN Err(UnexpectedSyntax)
        ELSE CASE segments[2] \in MathConstants ->
                    MathChecked(args = <<>>, KNumber)
               [] segments[2] \in MathSingleNumber ->
                    MathChecked(NumberArgs(args, 1), KNumber)
               [] segments[2] = "fixed" ->
                    MathChecked(NumberArgs(args, 2), KNumber)
               [] segments[2] \in {"clamp", "lerp", "lerpangle"} ->
                    MathChecked(NumberArgs(args, 3), KNumber)
               [] segments[2] \in {"log", "pow"} ->
                    MathChecked(NumberArgs(args, 2), KNumber)
               [] segments[2] \in MathAggregates ->
                    MathChecked(/\ Len(args) = 1
                                 /\ resolve(args[1]).k = "array", KNumber)
               [] segments[2] \in {"bottom", "top"} ->
                    IF /\ Len(args) = 2
                       /\ resolve(args[1]).k = "array"
                       /\ resolve(args[2]) = KNumber
                    THEN Ok(KArray(resolve(args[1]).inner))
                    ELSE Err(UnexpectedSyntax)
               [] OTHER -> Err(FunctionNotFound("math::" \o segments[2]))

RECURSIVE is_argument_compatible(_, _)
is_argument_compatible(arg_type, param_type) ==
    CASE arg_type = KAny \/ param_type = KAny -> TRUE
      [] arg_type = param_type -> TRUE
      [] arg_type.k = "litstring" /\ param_type = KString -> TRUE
      [] arg_type.k = "litnumber" /\ param_type = KNumber -> TRUE
      [] arg_type.k = "array" /\ param_type.k = "array" ->
            is_argument_compatible(arg_type.inner, param_type.inner)
      [] arg_type.k = "option" /\ param_type.k = "option" ->
            is_argument_compatible(arg_type.inner, param_type.inner)
      [] param_type.k = "option" ->
            is_argument_compatible(arg_type, param_type.inner)
      [] arg_type.k = "record" /\ param_type.k = "record" ->
            arg_type.tables = param_type.tables
      [] OTHER -> FALSE

\* validate_function_call: the number of arguments, then the first argument
\* whose type does not fit its parameter.
validate_function_call(ctx, func, func_def) ==
    IF Len(func.args) # Len(func_def.args)
    THEN Err(InvalidFunctionCall(func_def.name,
                                 <<"arguments", Len(func_def.args),
                                   Len(func.args)>>))
    ELSE LET bad == {i \in 1..Len(func.args) :
                        ~is_argument_compatible(resolve(func.args[i]),
                                                func_def.args[i][2])}
         IN  IF bad = {} THEN Ok(KNull)
             ELSE Err(InvalidFunctionCall(
                          func_def.name,
                          <<"argument", CHOOSE i \in bad : \A j \in bad : i <= j>>))

\* The lookup of a DEFINE FUNCTION by the name fn::name, and the parameters
\* a call inherits from the function; the functions of the model require
\* no parameters.
find_function_definition(ctx, name) ==
    LET i == FirstMatch({j \in 1..Len(ctx.definitions) :
                            /\ ctx.definitions[j].d = "function"
                            /\ "fn::" \o ctx.definitions[j].name = name})
    IN  IF i = 0 THEN None ELSE Some(ctx.definitions[i])

inherit_function_required_params(ctx, name) == ctx

\* The call of a custom function that was found under full_name.
CustomCall(ctx, func, func_def, full_name) ==
    LET valid == validate_function_call(ctx, func, func_def)
    IN  IF ~valid.ok THEN [ctx |-> ctx, res |-> valid]
        ELSE [ctx |-> inherit_function_required_params(ctx, full_name),
              res |-> Ok(IF func_def.returns.some THEN func_def.returns.v
                         ELSE KAny)]

\* The arms of analyze_function that answer without a sub-analyzer.
BuiltinCall(ctx, name, args) ==
    CASE name[1] = "record" ->
            IF Len(name) < 2 THEN Err(UnexpectedSyntax)
            ELSE IF name[2] = "exists"
            THEN IF Len(args) # 1 THEN Err(UnexpectedSyntax) ELSE Ok(KBool)
            ELSE Err(FunctionNotFound("record::" \o name[2]))
      [] name[1] = "session" -> Ok(KString)
      [] name[1] = "sleep" -> Ok(KNull)
      [] name[1] = "count" -> Ok(KInt)
      [] name[1] = "meta" ->
            IF Len(name) >= 2 /\ name[2] \in {"id", "tb"} THEN Ok(KString)
            ELSE Err(FunctionNotFound(JoinName(name)))
      [] name[1] = "encoding" ->
            IF Len(name) >= 3 /\ name[2] = "base64" /\ name[3] = "encode"
            THEN Ok(KString)
            ELSE IF Len(name) >= 3 /\ name[2] = "base64" /\ name[3] = "decode"
            THEN Ok(KBytes)
            ELSE Err(FunctionNotFound(JoinName(name)))
      [] name[1] = "http" ->
            IF Len(name) >= 2 /\ name[2] = "head" THEN Ok(KNull)
            ELSE IF /\ Len(name) >= 2
                    /\ name[2] \in {"get", "put", "post", "patch", "delete"}
            THEN Ok(KObject)
            ELSE Err(FunctionNotFound(JoinName(name)))

analyze_function(ctx, func) ==
    IF func.name = <<>> THEN [ctx |-> ctx, res |-> Err(UnexpectedSyntax)]
    ELSE LET name == func.name
         IN  CASE name[1] = "math" ->
                    [ctx |-> ctx, res |-> analyze_math(ctx, func)]
               [] name[1] \in {"record", "session", "sleep", "count", "meta",
                               "encoding", "http"} ->
                    [ctx |-> ctx, res |-> BuiltinCall(ctx, name, func.args)]
               [] name[1] = "fn" ->
                    LET found == find_function_definition(ctx, JoinName(name))
                    IN  IF found.some
                        THEN CustomCall(ctx, func, found.v, JoinName(name))
                        ELSE [ctx |-> ctx,
                              res |-> Err(FunctionNotFound(
                                  "Custom function '" \o JoinName(name)
                                      \o "' not found"))]
               [] OTHER ->
                    LET full_name == "fn::" \o JoinName(name)
                        found == find_function_definition(ctx, full_name)
                    IN  IF found.some
                        THEN CustomCall(ctx, func, found.v, full_name)
                        ELSE [ctx |-> ctx,
                              res |-> Err(FunctionNotFound(JoinName(name)))]

RECURSIVE is_compatible_type(_, _)
is_compatible_type(declared, inferred) ==
    CASE declared = KAny \/ inferred = KAny -> TRUE
      [] declared = inferred -> TRUE
      [] inferred.k = "either" ->
            \E i \in 1..Len(inferred.kinds) :
                is_compatible_type(declared, inferred.kinds[i])
      [] declared.k = "array" /\ inferred.k = "array" ->
            is_compatible_type(declared.inner, inferred.inner)
      [] declared.k = "option" /\ inferred.k = "option" ->
            is_compatible_type(declared.inner, inferred.inner)
      [] OTHER -> FALSE

\* The entries of a block: RETURN what, IF .. ELSE with the bodies of its
\* branches (a value, or a block as VBlock) and its optional ELSE body,
\* LET name = what, and any other entry.
Output(what) == [en |-> "output", what |-> what]
IfElse(exprs, close) == [en |-> "ifelse", exprs |-> exprs, close |-> close]
LetEntry(name, what) ==
    [en |-> "set", name |-> name, what |-> what, let |-> TRUE]
ValueEntry(value) == [en |-> "value", value |-> value]

\* format!("{:?}", kind) as the sequence of its pieces, each piece given by
\* its place in the order of the strings: ", " 0, "])" 1, ", None)" 1,
\* Any 2, Array( 3, Bool 4, Either([ 5, Null 6, Number 7, String 8 and the
\* other kinds 9.
RECURSIVE DebugKey(_)
RECURSIVE DebugKeys(_)
DebugKey(kind) ==
    CASE kind = KAny -> <<2>>
      [] kind.k = "array" -> <<3>> \o DebugKey(kind.inner) \o <<1>>
      [] kind = KBool -> <<4>>
      [] kind.k = "either" -> <<5>> \o DebugKeys(kind.kinds) \o <<1>>
      [] kind = KNull -> <<6>>
      [] kind = KNumber -> <<7>>
      [] kind = KString -> <<8>>
      [] OTHER -> <<9>>
DebugKeys(ks) ==
    IF ks = <<>> THEN <<>>
    ELSE IF Len(ks) = 1 THEN DebugKey(ks[1])
    ELSE DebugKey(ks[1]) \o <<0>> \o DebugKeys(Tail(ks))

\* The order of strings on two keys.
RECURSIVE KeyLess(_, _)
KeyLess(a, b) ==
    IF b = <<>> THEN FALSE
    ELSE IF a = <<>> THEN TRUE
    ELSE IF a[1] # b[1] THEN a[1] < b[1]
    ELSE KeyLess(Tail(a), Tail(b))

\* return_types.sort_by_key(|k| format!("{:?}", k)): a stable sort.
RECURSIVE InsertByKey(_, _)
InsertByKey(sorted, kind) ==
    IF sorted = <<>> THEN <<kind>>
    ELSE IF KeyLess(DebugKey(kind), DebugKey(sorted[1]))
    THEN <<kind>> \o sorted
    ELSE <<sorted[1]>> \o InsertByKey(Tail(sorted), kind)

RECURSIVE SortByKey(_)
SortByKey(ks) ==
    IF ks = <<>> THEN <<>>
    ELSE InsertByKey(SortByKey(SubSeq(ks, 1, Len(ks) - 1)), ks[Len(ks)])

\* return_types.dedup(): of equal neighbours the first stays.
RECURSIVE Dedup(_)
Dedup(ks) ==
    IF Len(ks) < 2 THEN ks
    ELSE IF ks[1] = ks[2] THEN Dedup(Tail(ks))
    ELSE <<ks[1]>> \o Dedup(Tail(ks))

\* The end of analyze_block: Null for a block without a RETURN of its own,
\* else Null, the one type, or the union of what was collected.
BlockType(has_explicit_return, return_types) ==
    IF ~has_explicit_return THEN KNull
    ELSE IF return_types = <<>> THEN KNull
    ELSE IF Len(return_types) = 1 THEN return_types[1]
    ELSE KEither(Dedup(SortByKey(return_types)))

RECURSIVE analyze_block(_, _)
RECURSIVE ReturnTypes(_, _)
RECURSIVE BodyTypes(_, _)

\* The type of each body of an IF .. ELSE, in order.
BodyTypes(ctx, bodies) ==
    IF bodies = <<>> THEN <<>>
    ELSE <<IF bodies[1].v = "block"
           THEN analyze_block(ctx, bodies[1].block)
           ELSE resolve(bodies[1])>> \o BodyTypes(ctx, Tail(bodies))

\* return_types after the loop over the entries.
ReturnTypes(ctx, block) ==
    IF block = <<>> THEN <<>>
    ELSE LET entry == block[1]
             types == CASE entry.en = "output" -> <<resolve(entry.what)>>
                        [] entry.en = "ifelse" ->
                              BodyTypes(ctx, entry.exprs)
                                  \o (IF entry.close.some
                                      THEN BodyTypes(ctx, <<entry.close.v>>)
                                      ELSE <<>>)
                        [] OTHER -> <<>>
         IN  types \o ReturnTypes(ctx, Tail(block))

analyze_block(ctx, block) ==
    BlockType(\E i \in 1..Len(block) : block[i].en = "output",
              ReturnTypes(ctx, block))

\* analyze_function_definition: the definition with the return type that
\* was declared, if the body fits it, or inferred.
analyze_function_definition(ctx, func_def) ==
    LET inferred_return_type == analyze_block(ctx, func_def.block)
    IN  IF func_def.returns.some
        THEN IF is_compatible_type(func_def.returns.v, inferred_return_type)
             THEN Ok([func_def EXCEPT !.returns = Some(func_def.returns.v)])
             ELSE Err(FunctionReturnTypeMismatch(func_def.returns.v,
                                                  inferred_return_type))
        ELSE Ok([func_def EXCEPT !.returns = Some(inferred_return_type)])

(***************************************************************************)
(* DEFINE TABLE and DEFINE FIELD (statements/mod.rs): the expressions of   *)
(* the PERMISSIONS, ASSERT and VALUE clauses are analysed on a clone of    *)
(* the context, so the context itself is left as it was; the required      *)
(* parameters the clone would hand back are kept by a part of the context  *)
(* that context.rs does not hold.                                          *)
(***************************************************************************)
\* format!("{:?}", kind): the derived Debug form of a Kind.
RECURSIVE Debug(_)
RECURSIVE DebugList(_)
RECURSIVE DebugTables(_)
Debug(kind) ==
    CASE kind.k = "any" -> "Any"
      [] kind.k = "null" -> "Null"
      [] kind.k = "bool" -> "Bool"
      [] kind.k = "number" -> "Number"
      [] kind.k = "string" -> "String"
      [] kind.k = "object" -> "Object"
      [] kind.k = "int" -> "Int"
      [] kind.k = "bytes" -> "Bytes"
      [] kind.k = "function" -> "Function(None, None)"
      [] kind.k = "array" -> "Array(" \o Debug(kind.inner) \o ", None)"
      [] kind.k = "option" -> "Option(" \o Debug(kind.inner) \o ")"
      [] kind.k = "either" -> "Either([" \o DebugList(kind.kinds) \o "])"
      [] kind.k = "record" -> "Record([" \o DebugTables(kind.tables) \o "])"

DebugList(ks) ==
    CASE ks = <<>> -> ""
      [] Len(ks) = 1 -> Debug(ks[1])
      [] OTHER -> Debug(ks[1]) \o ", " \o DebugList(Tail(ks))

DebugTables(tables) ==
    CASE tables = <<>> -> ""
      [] Len(tables) = 1 -> "Table(\"" \o tables[1] \o "\")"
      [] OTHER -> "Table(\"" \o tables[1] \o "\"), "
                      \o DebugTables(Tail(tables))

\* The Display form of an AnalyzerError (the #[error] attributes).
Display(err) ==
    CASE err.e = "TypeMismatch" ->
            "Type mismatch: expected " \o err.expected
                \o ", found " \o err.found
      [] err.e = "FunctionNotFound" -> "Function '" \o err.name \o "' not found"
      [] err.e = "InvalidFunctionCall" ->
            "Invalid function call: " \o ToString(err.message)
      [] err.e = "UnexpectedSyntax" -> "Unexpected syntax was encountered"

\* An expression check that lets every type pass.
validate_any_expression(result_type) == Ok(KNull)

validate_boolean_expression(result_type) ==
    CASE result_type = KBool -> Ok(KNull)
      [] result_type = KAny -> Ok(KNull)
      [] result_type.k = "either" ->
            IF \A i \in 1..Len(result_type.kinds) :
                   result_type.kinds[i] \in {KBool, KAny}
            THEN Ok(KNull)
            ELSE Err(TypeMismatch("boolean", Debug(result_type)))
      [] OTHER -> Err(TypeMismatch("boolean", Debug(result_type)))

RECURSIVE is_type_compatible(_, _)
is_type_compatible(actual, expected) ==
    CASE actual = KAny \/ expected = KAny -> TRUE
      [] actual = expected -> TRUE
      [] actual.k = "litstring" /\ expected = KString -> TRUE
      [] actual.k = "litnumber" /\ expected = KNumber -> TRUE
      [] actual.k = "litbool" /\ expected = KBool -> TRUE
      [] actual.k = "array" /\ expected.k = "array" ->
            is_type_compatible(actual.inner, expected.inner)
      [] actual.k = "option" /\ expected.k = "option" ->
            is_type_compatible(actual.inner, expected.inner)
      [] expected.k = "option" -> is_type_compatible(actual, expected.inner)
      [] OTHER -> FALSE

\* The four clauses in the order select, create, update, delete; the first
\* that is not a boolean expression ends the analysis.
analyze_permissions(ctx, permissions) ==
    LET clauses == <<permissions.select, permissions.create,
                     permissions.update, permissions.delete>>
        checked == [i \in 1..4 |->
                       IF clauses[i].perm = "specific"
                       THEN validate_boolean_expression(
                                resolve(clauses[i].value))
                       ELSE Ok(KNull)]
        i == FirstMatch({j \in 1..4 : ~checked[j].ok})
    IN  IF i = 0 THEN Ok(KNull) ELSE checked[i]

analyze_value_expression(ctx, value) ==
    IF value.v = "function" THEN analyze_function(ctx, value.func).res
    ELSE Ok(resolve(value))

analyze_assert_clause(ctx, assert_value, field_def) ==
    LET result_type == analyze_value_expression(ctx, assert_value)
    IN  IF result_type.ok THEN validate_boolean_expression(result_type.kind)
        ELSE result_type

analyze_default_value(ctx, default_value, field_type) ==
    LET default_type == analyze_value_expression(ctx, default_value)
    IN  CASE ~default_type.ok -> default_type
          [] field_type.some
                /\ ~is_type_compatible(default_type.kind, field_type.v) ->
                Err(TypeMismatch(Debug(field_type.v),
                                 Debug(default_type.kind)))
          [] OTHER -> Ok(KNull)

analyze_table_definition(ctx, table_def) ==
    LET table_name == table_def.name
        permitted == analyze_permissions(ctx, table_def.permissions)
    IN  IF permitted.ok THEN Ok(KNull)
        ELSE Err(SchemaViolation(
                     "Error in table '" \o table_name \o "' permissions: "
                         \o Display(permitted.err),
                     Some(table_name), None))

\* The permissions, then the ASSERT clause, then the VALUE clause; the
\* first that fails is the error of the definition.
analyze_field_definition(ctx, field_def) ==
    LET table_name == field_def.what
        field_name == IdiomToString(field_def.name)
        where == "Error in field '" \o table_name \o "." \o field_name \o "' "
        permitted == analyze_permissions(ctx, field_def.permissions)
        asserted == IF field_def.assert.some
                    THEN analyze_assert_clause(ctx, field_def.assert.v,
                                               field_def)
                    ELSE Ok(KNull)
        valued == IF field_def.value.some
                  THEN analyze_default_value(ctx, field_def.value.v,
                                             field_def.kind)
                  ELSE Ok(KNull)
        violation(message) ==
            Err(SchemaViolation(message, Some(table_name), Some(field_name)))
    IN  CASE ~permitted.ok ->
                violation(where \o "permissions: " \o Display(permitted.err))
          [] ~asserted.ok ->
                violation(where \o "assert clause: " \o Display(asserted.err))
          [] ~valued.ok ->
                violation(where \o "default value: " \o Display(valued.err))
          [] OTHER -> Ok(KNull)

\* Statement::Define of analyze_statement.
analyze_define(ctx, define_stmt) ==
    LET analyzed ==
            CASE define_stmt.d = "function" ->
                    analyze_function_definition(ctx, define_stmt)
              [] define_stmt.d = "table" ->
                    analyze_table_definition(ctx, define_stmt)
              [] define_stmt.d = "field" ->
                    analyze_field_definition(ctx, define_stmt)
              [] OTHER -> Ok(KNull)
    IN  CASE ~analyzed.ok -> [ctx |-> ctx, res |-> analyzed]
          [] define_stmt.d = "function" ->
                [ctx |-> append_definition(ctx, analyzed.kind),
                 res |-> Ok(KNull)]
          [] OTHER ->
                [ctx |-> append_definition(ctx, define_stmt),
                 res |-> Ok(KNull)]

\* The removals and the alteration the dispatcher asks the context for:
\* remove_table_definition deletes the DEFINE TABLE statements of the
\* table, remove_field_definition the DEFINE FIELD statements of exactly
\* that path on the table, and alter_table_definition rewrites the first
\* definition of the table with the kind the ALTER statement gives.
remove_table_definition(ctx, table_name) ==
    [ctx EXCEPT !.definitions =
        SelectSeq(@, LAMBDA def : ~(def.d = "table" /\ def.name = table_name))]

remove_field_definition(ctx, table_name, field_name) ==
    [ctx EXCEPT !.definitions =
        SelectSeq(@, LAMBDA def : ~(/\ def.d = "field"
                                    /\ def.what = table_name
                                    /\ def.name = field_name))]

alter_table_definition(ctx, alter_table) ==
    LET i == FirstMatch({j \in 1..Len(ctx.definitions) :
                            /\ ctx.definitions[j].d = "table"
                            /\ ctx.definitions[j].name = alter_table.name})
    IN  IF i # 0 /\ alter_table.kind.some
        THEN [ctx EXCEPT !.definitions[i].kind = alter_table.kind.v]
        ELSE ctx

Unimplemented(feature) == [e |-> "Unimplemented", feature |-> feature]

\* Statement::Remove of analyze_statement.
analyze_remove(ctx, remove_stmt) ==
    CASE remove_stmt.r = "table" ->
            IF find_table_definition(ctx, remove_stmt.name).some
            THEN [ctx |-> remove_table_definition(ctx, remove_stmt.name),
                  res |-> Ok(KNull)]
            ELSE IF remove_stmt.if_exists
            THEN [ctx |-> ctx, res |-> Ok(KNull)]
            ELSE [ctx |-> ctx, res |-> Err(TableNotFound(remove_stmt.name))]
      [] remove_stmt.r = "field" ->
            IF find_field_definition(ctx, remove_stmt.what,
                                     remove_stmt.name).some
            THEN [ctx |-> remove_field_definition(ctx, remove_stmt.what,
                                                  remove_stmt.name),
                  res |-> Ok(KNull)]
            ELSE IF remove_stmt.if_exists
            THEN [ctx |-> ctx, res |-> Ok(KNull)]
            ELSE [ctx |-> ctx,
                  res |-> Err(FieldNotFound(IdiomToString(remove_stmt.name),
                                            "table " \o remove_stmt.what))]
      [] remove_stmt.r = "index" -> [ctx |-> ctx, res |-> Ok(KNull)]
      [] OTHER -> [ctx |-> ctx, res |-> Err(Unimplemented("REMOVE"))]

\* Statement::Alter of analyze_statement.
analyze_alter(ctx, alter_stmt) ==
    IF alter_stmt.a = "table"
    THEN IF ~find_table_definition(ctx, alter_stmt.name).some
         THEN IF alter_stmt.if_exists
              THEN [ctx |-> ctx, res |-> Ok(KNull)]
              ELSE [ctx |-> ctx, res |-> Err(TableNotFound(alter_stmt.name))]
         ELSE [ctx |-> alter_table_definition(ctx, alter_stmt),
               res |-> Ok(KNull)]
    ELSE [ctx |-> ctx, res |-> Err(Unimplemented("ALTER"))]

(***************************************************************************)
(* The statement dispatcher (statements/mod.rs) and analyze (mod.rs).      *)
(* The DEFINE statements of the model carry no PERMISSIONS, ASSERT or      *)
(* DEFAULT clause, so analyze_table_definition and                         *)
(* analyze_field_definition have nothing to validate and return Ok.        *)
(***************************************************************************)
analyze_statement(ctx, stmt) ==
    CASE stmt.st = "value" ->
            IF stmt.value.v = "function"
            THEN analyze_function(ctx, stmt.value.func)
            ELSE [ctx |-> ctx, res |-> Ok(resolve(stmt.value))]
      [] stmt.st = "select" -> [ctx |-> ctx, res |-> analyze_select(ctx, stmt)]
      [] stmt.st = "update" -> analyze_update(ctx, stmt)
      [] stmt.st = "create" -> analyze_create(ctx, stmt)
      [] stmt.st = "delete" -> analyze_delete(ctx, stmt)
      [] stmt.st = "insert" -> analyze_insert(ctx, stmt)
      [] stmt.st = "upsert" -> analyze_upsert(ctx, stmt)
      [] stmt.st = "relate" -> analyze_relate(ctx, stmt)
      [] stmt.st \in {"foreach", "set", "begin", "commit", "cancel"} ->
            [ctx |-> ctx, res |-> Ok(KNull)]
      [] stmt.st = "define" -> analyze_define(ctx, stmt.def)
      [] stmt.st = "remove" -> analyze_remove(ctx, stmt)
      [] stmt.st = "alter" -> analyze_alter(ctx, stmt)
      [] OTHER ->
            [ctx |-> ctx, res |-> Err([e |-> "Surreal", unimplemented |-> stmt.st])]

\* The iterator of analyze: every statement in order against the same
\* context, collecting the kinds; the first error ends it, and an
\* UnexpectedSyntax error gets the statement's number.
\* map_err of analyze on the error of statement number index + 1.
StatementError(err, index) ==
    IF err = UnexpectedSyntax THEN UnexpectedSyntaxWithContext(index + 1)
    ELSE err

RECURSIVE AnalyzeEach(_, _, _, _)
RECURSIVE AnalyzeRest(_, _, _, _)
AnalyzeEach(ctx, statements, index, collected) ==
    IF statements = <<>>
    THEN [ctx |-> ctx, kinds |-> collected, err |-> None]
    ELSE AnalyzeRest(analyze_statement(ctx, Head(statements)),
                     Tail(statements), index, collected)

\* What the iterator does with the outcome, step, of one statement.
AnalyzeRest(step, statements, index, collected) ==
    IF step.res.ok
    THEN AnalyzeEach(step.ctx, statements, index + 1,
                     Append(collected, step.res.kind))
    ELSE [ctx |-> step.ctx, kinds |-> <<>>,
          err |-> Some(StatementError(step.res.err, index))]

\* A final match that returns the literal array of every statement's kind
\* for a batch of two or more.
AnalyzeResultLiteral(collected) ==
    CASE Len(collected) = 0 -> KNull
      [] Len(collected) = 1 -> KArray(collected[1])
      [] OTHER -> LitArray(collected)

\* A final match that returns a single statement's kind as it is.
AnalyzeResultBare(collected) ==
    CASE Len(collected) = 0 -> KNull
      [] OTHER -> collected[Len(collected)]

\* match kinds.len() of analyze.
AnalyzeResult(collected) ==
    CASE Len(collected) = 0 -> KNull
      [] Len(collected) = 1 -> KArray(collected[1])
      [] OTHER -> collected[Len(collected)]

\* An end of analyze that returns a type whether a statement failed or not.
AnalyzeOutcomeLenient(run) ==
    [ctx |-> run.ctx,
     kinds |-> run.kinds,
     result |-> Ok(AnalyzeResult(run.kinds))]

\* The "?" on the collected results and the final match.
AnalyzeOutcome(run) ==
    [ctx |-> run.ctx,
     kinds |-> run.kinds,
     result |-> IF run.err.some THEN Err(run.err.v)
                ELSE Ok(AnalyzeResult(run.kinds))]

analyze(ctx, statements) ==
    AnalyzeOutcome(AnalyzeEach(ctx, statements, 0, <<>>))

(***************************************************************************)
(* The statements the model analyzes.                                      *)
(***************************************************************************)
Idiom1(a) == <<FieldPart(a)>>
Idiom2(a, b) == <<FieldPart(a), FieldPart(b)>>

AddressKind == LitObject([zip |-> KNumber, city |-> KString])

Define(def) == [st |-> "define", def |-> def]

SchemaStatements ==
    { Define(DefineTable("user", TableNormal)),
      Define(DefineTable("post", TableNormal)),
      Define(DefineField("user", Idiom1("name"), Some(KString))),
      Define(DefineField("user", Idiom1("Name"), Some(KNumber))),
      Define(DefineField("user", Idiom1("address"), Some(AddressKind))),
      Define(DefineField("user", Idiom1("bio"), None)),
      Define(DefineField("user", Idiom1(".address"), Some(KBool))),
      Define(DefineField("post", Idiom1("author"),
                         Some(KRecord(<<"user">>)))) }

FieldAll == [f |-> "all"]
FieldSingle(expr, alias) == [f |-> "single", expr |-> expr, alias |-> alias]
Plain(idiom) == FieldSingle(VIdiom(idiom), None)

Select(what, value, only, expr, omit, fetch) ==
    [st |-> "select", what |-> <<what>>, value |-> value, only |-> only,
     expr |-> expr, omit |-> omit, fetch |-> fetch]

FieldPaths ==
    { Idiom1("name"), Idiom1("Name"), Idiom1("address"), Idiom1("bio"),
      Idiom1("author"), Idiom1("nope"), Idiom2("address", "zip") }

SelectStatements ==
    \* one field or the wildcard, from a defined or an undefined table
    { Select(VTable(t), m[1], m[2], <<f>>, None, None) :
        t \in {"user", "post", "ghost"},
        m \in {<<FALSE, FALSE>>, <<FALSE, TRUE>>, <<TRUE, FALSE>>},
        f \in {FieldAll} \cup {Plain(i) : i \in FieldPaths} }
    \cup
    \* no field, or two fields
    { Select(VTable("user"), v, FALSE, e, None, None) :
        v \in BOOLEAN,
        e \in { <<>>, <<Plain(Idiom1("name")), Plain(Idiom1("address"))>>,
                <<Plain(Idiom1("name")), Plain(Idiom1("nope"))>> } }
    \cup
    \* a record, a parameter or a string as the FROM target
    { Select(w, FALSE, o, <<FieldAll>>, None, None) :
        w \in {VThing("user", "tobie"), VParam("auth"), VStrand("user")},
        o \in BOOLEAN }
    \cup
    \* OMIT
    { Select(VTable("user"), FALSE, FALSE, e, Some(<<o>>), None) :
        e \in {<<FieldAll>>, <<Plain(Idiom1("name"))>>},
        o \in { Idiom1("name"), Idiom1("Name"), Idiom1("address"),
                Idiom1("bio"), Idiom2("address", "zip") } }
    \cup
    \* FETCH
    { Select(VTable("post"), v, FALSE, <<f>>, None, Some(<<i>>)) :
        v \in BOOLEAN,
        f \in {FieldAll, Plain(Idiom1("author"))},
        i \in {Idiom1("author"), Idiom1("user")} }
    \cup
    \* an alias
    { Select(VTable("user"), FALSE, FALSE,
             <<FieldSingle(VIdiom(Idiom1("name")), Some("nom"))>>,
             None, None) }

Content(value) == Some([d |-> "content", value |-> value])
SetFields(pairs) == Some([d |-> "set", pairs |-> pairs])

Create(what, data) == [st |-> "create", what |-> <<what>>, data |-> data]
Update(what, data) == [st |-> "update", what |-> <<what>>, data |-> data]
Upsert(what, data) == [st |-> "upsert", what |-> <<what>>, data |-> data]
Insert(into, data) == [st |-> "insert", into |-> into, data |-> data]
Relate(from, kind, with, data) ==
    [st |-> "relate", from |-> from, kind |-> kind, with |-> with,
     data |-> data]
Delete(what, cond) == [st |-> "delete", what |-> <<what>>, cond |-> cond]

JohnObject == VObject(<<(<<"name", VStrand("John")>>)>>)

MutationStatements ==
    { Create(VTable("user"), Content(JohnObject)),
      Create(VTable("post"), None),
      Create(VThing("user", "jane"), Content(JohnObject)),
      Create(VTable("ghost"), None),
      Create(VParam("target"), None),
      Create(VTable("user"),
             Content(VObject(<<(<<"nope", VParam("p")>>)>>))),
      Update(VTable("user"),
             SetFields(<<(<<Idiom1("name"), VStrand("John")>>)>>)),
      Update(VTable("user"),
             SetFields(<<(<<Idiom1("nope"), VParam("p")>>)>>)),
      Update(VTable("user"),
             SetFields(<<(<<Idiom1("name"), VParam("p")>>)>>)),
      Upsert(VTable("user"),
             SetFields(<<(<<Idiom1("name"), VStrand("Jane")>>)>>)),
      Upsert(VStrand("user"), None),
      Insert(VTable("user"), Content(JohnObject)),
      Insert(VParam("target"), None),
      Relate(VThing("user", "jane"), VTable("post"), VThing("user", "john"),
             None),
      Relate(VThing("user", "jane"), VStrand("post"), VThing("user", "john"),
             None) }

DeleteStatements ==
    { Delete(VTable(t), c) : t \in {"user", "post", "ghost"}, c \in BOOLEAN }

OtherStatements ==
    { [st |-> "value", value |-> VStrand("hello")],
      [st |-> "begin"],
      [st |-> "show"] }

Statements ==
    SchemaStatements \cup SelectStatements \cup MutationStatements
        \cup DeleteStatements \cup OtherStatements

\* The statements that batches of more than one statement are made of.
BatchStatements ==
    { Define(DefineTable("user", TableNormal)),
      Define(DefineField("user", Idiom1("name"), Some(KString))),
      Create(VTable("user"), Content(JohnObject)),
      Create(VTable("post"), None),
      Delete(VTable("user"), FALSE),
      Select(VTable("user"), FALSE, FALSE, <<FieldAll>>, None, None) }

Batches ==
    {<<>>} \cup {<<s>> : s \in Statements}
        \cup UNION {[1..n -> BatchStatements] : n \in 2..MaxBatch}

NumDefines(batch) ==
    Cardinality({i \in 1..Len(batch) : batch[i].st = "define"})

(***************************************************************************)
(* The state machine: a driver that owns one context calls analyze on a    *)
(* query and then takes the result.                                        *)
(***************************************************************************)
Context ==
    [definitions |-> definitions, inferred_params |-> inferred_params,
     auth |-> auth]

Init ==
    /\ definitions = NewContext.definitions
    /\ inferred_params = NewContext.inferred_params
    /\ auth = NewContext.auth
    /\ pc = "idle"
    /\ call = <<>>
    /\ kinds = <<>>
    /\ result = Ok(KNull)
    /\ query_ctx = NewContext
    /\ parent = DefaultContext
    /\ child = None

\* The context and the outcome a call of analyze leaves.
Returned(run) ==
    /\ Len(run.ctx.inferred_params) <= MaxParams
    /\ definitions' = run.ctx.definitions
    /\ inferred_params' = run.ctx.inferred_params
    /\ auth' = run.ctx.auth
    /\ kinds' = run.kinds
    /\ result' = run.result

Analyze(statements) ==
    /\ pc = "idle"
    /\ Len(definitions) + NumDefines(statements) <= MaxDefs
    /\ Returned(analyze(Context, statements))
    /\ call' = statements
    /\ pc' = "done"
    /\ UNCHANGED <<query_ctx, parent, child>>

\* The caller has the result: the next query starts from the context left.
Return ==
    /\ pc \in {"done", "query"}
    /\ pc' = "idle"
    /\ call' = <<>>
    /\ kinds' = <<>>
    /\ result' = Ok(KNull)
    /\ query_ctx' = NewContext
    /\ UNCHANGED <<definitions, inferred_params, auth, parent, child>>

Next ==
    \/ \E statements \in Batches : Analyze(statements)
    \/ Return

Spec == Init /\ [][Next]_vars

(***************************************************************************)
(* The code generator (crates/codegen/src/typescript/mod.rs): load_schema  *)
(* calls analyze on the generator's own context, and analyze_query calls   *)
(* it on a clone of that context, whose inferred parameters it then reads. *)
(* query_ctx is that clone after the call.                                 *)
(***************************************************************************)
Merge(value) == Some([d |-> "merge", value |-> value])
Replace(value) == Some([d |-> "replace", value |-> value])
SingleExpression(value) == Some([d |-> "single", value |-> value])
ValuesExpression(pairs) == Some([d |-> "values", pairs |-> pairs])

RecordOf(t) == Some(KRecord(<<t>>))

GenSchemaStatements ==
    { Define(DefineTable("user", TableNormal)),
      Define(DefineField("user", Idiom1("email"), Some(KString))),
      Define(DefineField("user", Idiom1("age"), Some(KNumber))),
      Define(DefineField("post", Idiom1("title"), Some(KString))),
      Define(DefineTable("likes",
                         TableRelation(RecordOf("user"), RecordOf("post")))),
      Define(DefineField("likes", Idiom1("since"), Some(KNumber))),
      Define(DefineTable("follows", TableRelation(None, None))) }

\* The object { field: $param }.
ParamObject(field, param) == VObject(<<(<<field, VParam(param)>>)>>)

\* The pairs of an object are in the order of its keys, as the BTreeMap of
\* an Object yields them.
UserObject ==
    VObject(<<(<<"age", VParam("a")>>), (<<"email", VParam("e")>>)>>)

\* { email: $e, nope: $p }: a declared field, then an undeclared one.
HalfKnownObject ==
    VObject(<<(<<"email", VParam("e")>>), (<<"nope", VParam("p")>>)>>)

CreateQueries ==
    { Create(VTable("user"), d) :
        d \in { Content(VParam("u")), Content(UserObject),
                Content(ParamObject("email", "e")),
                Content(ParamObject("nope", "p")),
                Content(HalfKnownObject),
                SingleExpression(VParam("u")),
                ValuesExpression(<<(<<Idiom1("email"), VParam("e")>>)>>),
                SetFields(<<(<<Idiom1("email"), VParam("e")>>)>>) } }

UpdateQueries ==
    { Update(VTable("user"), d) :
        d \in { Content(VParam("u")), Merge(VParam("u")),
                Replace(VParam("u")),
                Content(ParamObject("email", "e")),
                Merge(ParamObject("age", "a")),
                SetFields(<<(<<Idiom1("email"), VParam("e")>>),
                            (<<Idiom1("age"), VParam("a")>>)>>),
                SetFields(<<(<<Idiom1("email"), VParam("e")>>),
                            (<<Idiom1("nope"), VParam("p")>>)>>),
                SetFields(<<(<<Idiom1("email"), VParam("v")>>),
                            (<<Idiom1("age"), VParam("v")>>)>>) } }

UpsertQueries ==
    { Upsert(VTable("user"), d) :
        d \in { Content(VParam("u")),
                SetFields(<<(<<Idiom1("email"), VParam("e")>>)>>) } }

InsertQueries ==
    { Insert(VTable("user"), d) :
        d \in { SingleExpression(VParam("u")),
                SingleExpression(ParamObject("email", "e")),
                ValuesExpression(<<(<<Idiom1("email"), VParam("e")>>)>>) } }

RelateQueries ==
    { Relate(f, VTable(r), w, None) :
        f \in {VParam("x"), VThing("user", "jane")},
        r \in {"likes", "follows"},
        w \in {VParam("y"), VThing("post", "one")} }
    \cup
    { Relate(VThing("user", "jane"), VTable("likes"), w, d) :
        w \in {VParam("y"), VThing("post", "one")},
        d \in {Content(VParam("c")), Content(ParamObject("since", "s"))} }

Queries ==
    { <<q>> : q \in CreateQueries \cup UpdateQueries \cup UpsertQueries
                        \cup InsertQueries \cup RelateQueries }

\* What analyze_query keeps of a call of analyze on the clone.
Analyzed(run) ==
    /\ Len(run.ctx.inferred_params) <= MaxQueryParams
    /\ query_ctx' = run.ctx
    /\ kinds' = run.kinds
    /\ result' = run.result

AnalyzeQuery(query) ==
    /\ pc = "idle"
    /\ Analyzed(analyze(Context, query))
    /\ call' = query
    /\ pc' = "query"
    /\ UNCHANGED <<definitions, inferred_params, auth, parent, child>>

NextGen ==
    \/ \E s \in GenSchemaStatements : Analyze(<<s>>)
    \/ \E query \in Queries : AnalyzeQuery(query)
    \/ Return

SpecGen == Init /\ [][NextGen]_vars

(***************************************************************************)
(* A session over a schema with record links: post.author links to user,   *)
(* and user has link fields of its own, bare and wrapped.                  *)
(***************************************************************************)
LinkSchemaStatements ==
    { Define(DefineTable("post", TableNormal)),
      Define(DefineField("post", Idiom1("author"),
                         Some(KRecord(<<"user">>)))),
      Define(DefineField("post", Idiom1("author"),
                         Some(KOption(KRecord(<<"user">>))))),
      Define(DefineField("user", Idiom1("name"), Some(KString))),
      Define(DefineField("user", Idiom1("best"), Some(KRecord(<<"post">>)))),
      Define(DefineField("user", Idiom1("friends"),
                         Some(KArray(KRecord(<<"user">>))))),
      Define(DefineField("user", Idiom1("mentor"),
                         Some(KOption(KRecord(<<"user">>))))) }

FetchAuthor == Some(<<Idiom1("author")>>)

LinkQueries ==
    { Select(VTable("post"), FALSE, only, <<f>>, None, fetch) :
        only \in BOOLEAN,
        f \in {FieldAll, Plain(Idiom1("author"))},
        fetch \in {None, FetchAuthor} }

NextFetch ==
    \/ \E s \in LinkSchemaStatements \cup LinkQueries : Analyze(<<s>>)
    \/ Return

SpecFetch == Init /\ [][NextFetch]_vars

(***************************************************************************)
(* Graph paths over the schema of the graph traversal tests: the paths of  *)
(* up to MaxHops hops, with and without a trailing modifier, analyzed in   *)
(* the context the session has built.                                      *)
(***************************************************************************)
GraphSchemaStatements ==
    { Define(DefineTable("org", TableNormal)),
      Define(DefineField("org", Idiom1("name"), Some(KString))),
      Define(DefineField("org", Idiom1("industry"), Some(KString))) }

Hop ==
    { GraphPart("Out", <<SubjectTable("memberOf")>>),
      GraphPart("Out", <<SubjectTable("org")>>),
      GraphPart("In", <<SubjectTable("org")>>),
      GraphPart("Both", <<SubjectTable("org")>>) }

Modifiers ==
    { <<>>, <<AllPart>>, <<DestructurePart(<<"name", "nope">>)>> }

GraphPaths ==
    { hops \o modifier :
        hops \in UNION {[1..n -> Hop] : n \in 1..MaxHops},
        modifier \in Modifiers }

AnalyzeGraphPath(field_idiom) ==
    /\ pc = "idle"
    /\ result' = analyze_graph_path(Context, field_idiom)
    /\ call' = <<[st |-> "graph", idiom |-> field_idiom]>>
    /\ kinds' = <<>>
    /\ pc' = "done"
    /\ UNCHANGED <<definitions, inferred_params, auth, query_ctx, parent,
                   child>>

NextGraph ==
    \/ \E s \in GraphSchemaStatements : Analyze(<<s>>)
    \/ \E field_idiom \in GraphPaths : AnalyzeGraphPath(field_idiom)
    \/ Return

SpecGraph == Init /\ [][NextGraph]_vars

(***************************************************************************)
(* A session that defines, removes and alters: DEFINE, REMOVE and ALTER    *)
(* statements and a SELECT, one statement a call.                          *)
(***************************************************************************)
RemoveTable(name, if_exists) ==
    [st |-> "remove", r |-> "table", name |-> name, if_exists |-> if_exists]
RemoveField(what, name, if_exists) ==
    [st |-> "remove", r |-> "field", what |-> what, name |-> name,
     if_exists |-> if_exists]
RemoveIndex(name) == [st |-> "remove", r |-> "index", name |-> name]
RemoveEvent(name) == [st |-> "remove", r |-> "event", name |-> name]
AlterTable(name, if_exists, kind) ==
    [st |-> "alter", a |-> "table", name |-> name, if_exists |-> if_exists,
     kind |-> kind, full |-> None]
AlterSequence(name) == [st |-> "alter", a |-> "sequence", name |-> name]

EditedSchemaStatements ==
    { Define(DefineTable("user", TableNormal)),
      Define(DefineField("user", Idiom1("name"), Some(KString))),
      Define(DefineField("user", Idiom1("address"), Some(AddressKind))),
      Define(DefineField("user", Idiom1(".address"), Some(KBool))),
      Define(DefineIndex("user", "name_idx", <<Idiom1("name")>>)) }

EditStatements ==
    { RemoveTable(t, e) : t \in {"user", "ghost"}, e \in BOOLEAN }
    \cup { RemoveField("user", n, e) :
             n \in {Idiom1("name"), Idiom2("address", "zip")},
             e \in BOOLEAN }
    \cup { AlterTable(t, e, k) :
             t \in {"user", "ghost"}, e \in BOOLEAN,
             k \in {None, Some(TableRelation(None, None))} }
    \cup { RemoveIndex("email_idx"), RemoveEvent("on_create"),
           AlterSequence("ids"),
           Select(VTable("user"), FALSE, FALSE, <<FieldAll>>, None, None) }

NextSchema ==
    \/ \E s \in EditedSchemaStatements \cup EditStatements : Analyze(<<s>>)
    \/ Return

SpecSchema == Init /\ [][NextSchema]_vars

(***************************************************************************)
(* A session of function calls: DEFINE FUNCTION statements go through      *)
(* analyze, and analyze_function is called on a call against the context   *)
(* they left.                                                              *)
(***************************************************************************)
FunctionDefinitions ==
    { DefineFunction("greet", << <<"name", KString>> >>,
                     <<Output(VStrand("hi"))>>, None),
      DefineFunction("double", << <<"n", KNumber>> >>,
                     <<Output(VNumber(2))>>, Some(KNumber)),
      DefineFunction("broken", <<>>, <<Output(VStrand("x"))>>,
                     Some(KNumber)) }

FunctionNames ==
    { <<>>,
      <<"math">>, <<"math", "pi">>, <<"math", "abs">>, <<"math", "fixed">>,
      <<"math", "clamp">>, <<"math", "pow">>, <<"math", "mean">>,
      <<"math", "top">>, <<"math", "bogus">>,
      <<"record">>, <<"record", "exists">>, <<"record", "bogus">>,
      <<"session", "id">>, <<"sleep">>, <<"count">>,
      <<"meta", "id">>, <<"meta", "bogus">>,
      <<"encoding", "base64", "encode">>, <<"encoding", "bogus">>,
      <<"http", "head">>, <<"http", "get">>, <<"http", "bogus">>,
      <<"fn", "greet">>, <<"fn", "double">>, <<"fn", "nope">>,
      <<"greet">>, <<"bogus", "f">> }

Numbers == <<VArray(<<VNumber(1)>>)>>

FunctionArgs ==
    { <<>>,
      <<VNumber(1)>>, <<VStrand("x")>>, Numbers,
      <<VNumber(1), VNumber(2)>>, <<VNumber(1), VStrand("x")>>,
      Numbers \o <<VNumber(1)>>, Numbers \o <<VStrand("x")>>,
      <<VNumber(1), VNumber(2), VNumber(3)>> }

FunctionCalls ==
    { FunctionCall(name, args) : name \in FunctionNames, args \in FunctionArgs }

AnalyzeFunction(func) ==
    /\ pc = "idle"
    /\ LET run == analyze_function(Context, func)
       IN  /\ result' = run.res
           /\ definitions' = run.ctx.definitions
           /\ inferred_params' = run.ctx.inferred_params
           /\ auth' = run.ctx.auth
    /\ call' = <<[st |-> "function", func |-> func]>>
    /\ kinds' = <<>>
    /\ pc' = "done"
    /\ UNCHANGED <<query_ctx, parent, child>>

NextFunc ==
    \/ \E def \in FunctionDefinitions : Analyze(<<Define(def)>>)
    \/ \E func \in FunctionCalls : AnalyzeFunction(func)
    \/ Return

SpecFunc == Init /\ [][NextFunc]_vars

(***************************************************************************)
(* The compatibility of an argument with a parameter: is_argument_         *)
(* compatible applied to a pair of types, and calls of the functions       *)
(* takes_string .. takes_option, whose one parameter has the type asked.   *)
(***************************************************************************)
BaseKinds ==
    { KAny, KNull, KBool, KNumber, KString,
      LitString("a"), LitNumber(1), LitBool(TRUE),
      KRecord(<<"a">>), KRecord(<<"a", "b">>), KRecord(<<"b", "a">>) }

RECURSIVE NestedKinds(_)
NestedKinds(depth) ==
    IF depth = 0 THEN BaseKinds
    ELSE LET inner == NestedKinds(depth - 1)
         IN  inner \cup {KArray(kind) : kind \in inner}
                   \cup {KOption(kind) : kind \in inner}

CompatKinds == NestedKinds(MaxNest)

TakerDefinitions ==
    { DefineFunction("takes_string", << <<"x", KString>> >>, <<>>, None),
      DefineFunction("takes_bool", << <<"x", KBool>> >>, <<>>, None),
      DefineFunction("takes_record", << <<"x", KRecord(<<"a">>)>> >>, <<>>,
                     None),
      DefineFunction("takes_option", << <<"x", KOption(KNumber)>> >>, <<>>,
                     None) }

TakerCalls ==
    { FunctionCall(<<"fn", def.name>>, <<arg>>) :
        def \in TakerDefinitions,
        arg \in { VStrand("x"), VNumber(1), VTable("a"), VTable("b"),
                  VParam("p"), VArray(<<VNumber(1)>>) } }

IsArgumentCompatible(arg_type, param_type) ==
    /\ pc = "idle"
    /\ result' = Ok(is_argument_compatible(arg_type, param_type))
    /\ call' = <<[st |-> "compatible", arg_type |-> arg_type,
                  param_type |-> param_type]>>
    /\ kinds' = <<>>
    /\ pc' = "done"
    /\ UNCHANGED <<definitions, inferred_params, auth, query_ctx, parent,
                   child>>

NextCompat ==
    \/ \E def \in TakerDefinitions : Analyze(<<Define(def)>>)
    \/ \E func \in TakerCalls : AnalyzeFunction(func)
    \/ \E arg_type \in CompatKinds, param_type \in CompatKinds :
          IsArgumentCompatible(arg_type, param_type)
    \/ Return

SpecCompat == Init /\ [][NextCompat]_vars

(***************************************************************************)
(* The bodies of custom functions: analyze_block applied to a block of up  *)
(* to MaxBlock entries, and DEFINE FUNCTION statements through analyze.    *)
(***************************************************************************)
ReturnsNumber == VBlock(<<Output(VNumber(1))>>)

BlockEntries ==
    { Output(VStrand("a")), Output(VNumber(1)),
      Output(VArray(<<VNumber(1)>>)),
      IfElse(<<VStrand("a")>>, Some(VNumber(1))),
      IfElse(<<VStrand("a")>>, None),
      IfElse(<<ReturnsNumber>>, Some(VBlock(<<Output(VStrand("a"))>>))),
      IfElse(<<VBlock(<<>>), VNumber(1)>>, None),
      LetEntry("x", VNumber(1)),
      ValueEntry(VStrand("a")) }

Blocks == UNION {[1..n -> BlockEntries] : n \in 0..MaxBlock}

AnalyzeBlock(block) ==
    /\ pc = "idle"
    /\ result' = Ok(analyze_block(Context, block))
    /\ call' = <<[st |-> "block", block |-> block]>>
    /\ kinds' = <<>>
    /\ pc' = "done"
    /\ UNCHANGED <<definitions, inferred_params, auth, query_ctx, parent,
                   child>>

NextBlock ==
    \/ \E def \in FunctionDefinitions : Analyze(<<Define(def)>>)
    \/ \E block \in Blocks : AnalyzeBlock(block)
    \/ Return

SpecBlock == Init /\ [][NextBlock]_vars

(***************************************************************************)
(* A session of DEFINE TABLE and DEFINE FIELD statements, among them two   *)
(* definitions of one field with different types, after which the context  *)
(* is asked for the full type of a table or for the definition of a path.  *)
(***************************************************************************)
TableSchemaStatements ==
    SchemaStatements
        \cup { Define(DefineField("user", Idiom1("name"), Some(KNumber))),
               Define(DefineField("post", Idiom1("name"), Some(KBool))) }

TableNames == {"user", "post", "ghost"}

BuildFullTableType(table_name) ==
    /\ pc = "idle"
    /\ result' = Ok(build_full_table_type(Context, table_name))
    /\ call' = <<[st |-> "full_type", table |-> table_name]>>
    /\ kinds' = <<>>
    /\ pc' = "done"
    /\ UNCHANGED <<definitions, inferred_params, auth, query_ctx, parent,
                   child>>

LookupPaths ==
    { Idiom1("name"), Idiom1("address"), Idiom1("author"), Idiom1("nope"),
      Idiom2("address", "zip"), Idiom2("nope", "zip") }

FindFieldDefinition(table_name, field_idiom) ==
    /\ pc = "idle"
    /\ result' = Ok(find_field_definition(Context, table_name, field_idiom))
    /\ call' = <<[st |-> "find_field", table |-> table_name,
                  path |-> field_idiom]>>
    /\ kinds' = <<>>
    /\ pc' = "done"
    /\ UNCHANGED <<definitions, inferred_params, auth, query_ctx, parent,
                   child>>

\* SELECT f FROM t; SELECT * FROM t.
FieldThenAll(t, f) ==
    << Select(VTable(t), FALSE, FALSE, <<Plain(Idiom1(f))>>, None, None),
       Select(VTable(t), FALSE, FALSE, <<FieldAll>>, None, None) >>

NextTable ==
    \/ \E s \in TableSchemaStatements : Analyze(<<s>>)
    \/ \E t \in {"user", "post"}, f \in {"name", "author", "bio"} :
          Analyze(FieldThenAll(t, f))
    \/ \E table_name \in TableNames : BuildFullTableType(table_name)
    \/ \E table_name \in TableNames, field_idiom \in LookupPaths :
          FindFieldDefinition(table_name, field_idiom)
    \/ Return

SpecTable == Init /\ [][NextTable]_vars

(***************************************************************************)
(* DEFINE TABLE and DEFINE FIELD statements with PERMISSIONS and ASSERT    *)
(* clauses, next to the functions an ASSERT clause calls: the expressions  *)
(* are a boolean, a string, a number, a parameter and calls of functions   *)
(* that return unions.                                                     *)
(***************************************************************************)
UnionFunctions ==
    { DefineFunction("flag", <<>>, <<Output(VParam("x"))>>,
                     Some(KEither(<<KBool, KAny>>))),
      DefineFunction("mixed", <<>>, <<Output(VParam("x"))>>,
                     Some(KEither(<<KBool, KString>>))) }

PermissionSets ==
    { Permissions(select, PermissionFull, PermissionFull, delete) :
          select \in { PermissionNone, PermissionSpecific(VBool(TRUE)),
                       PermissionSpecific(VStrand("x")),
                       PermissionSpecific(VParam("auth")) },
          delete \in { PermissionFull, PermissionSpecific(VStrand("x")) } }

AssertValues ==
    { None, Some(VBool(TRUE)), Some(VNumber(1)), Some(VParam("value")),
      Some(VFunction(FunctionCall(<<"fn", "flag">>, <<>>))),
      Some(VFunction(FunctionCall(<<"fn", "mixed">>, <<>>))) }

NameField(value, assert, permissions) ==
    Define(DefineFieldStatement("user", Idiom1("name"), Some(KString), value,
                                assert, permissions))

PermissionStatements ==
    { Define(DefineTableStatement("user", TableNormal, permissions)) :
          permissions \in PermissionSets }
        \cup { NameField(None, assert, PermissionsNone) :
                   assert \in AssertValues }
        \cup { NameField(None, Some(VNumber(1)),
                         Permissions(PermissionSpecific(VStrand("x")),
                                     PermissionFull, PermissionFull,
                                     PermissionFull)),
               NameField(Some(VStrand("x")), None, PermissionsNone),
               NameField(Some(VNumber(1)), None, PermissionsNone) }
        \cup { Define(def) : def \in UnionFunctions }

NextPerm ==
    \/ \E s \in PermissionStatements : Analyze(<<s>>)
    \/ Return

SpecPerm == Init /\ [][NextPerm]_vars

(***************************************************************************)
(* A caller of the composed context: it adds entries to a context, forks   *)
(* a child of it with create_child and adds entries to the child.  Each    *)
(* context is a value of its own.                                          *)
(***************************************************************************)
TypeString == [t |-> "string"]
TypeInt == [t |-> "int"]
TypeObject == [t |-> "object"]

IsEmailSignature ==
    [parameters |-> <<TypeString>>, return_type |-> [t |-> "bool"],
     is_volatile |-> FALSE]

EmailIndex ==
    [table |-> "user", fields |-> <<"email">>, index_type |-> "Unique"]

OnCreateEvent ==
    [event_type |-> [change |-> "Create", trigger |-> "After"],
     trigger_table |-> "user", condition |-> None, action |-> TypeObject]

\* The additions the caller makes, applied to a context.
Additions(self) ==
    { add_table(self, name, TypeObject) : name \in {"user", "post"} }
    \cup { add_parameter(self, name[1], name[2]) :
                name \in {"p", "q"} \X {TypeString, TypeInt} }
    \cup { add_function(self, "type::is::email", IsEmailSignature),
           add_index(self, "email_idx", EmailIndex),
           add_event(self, "on_create", OnCreateEvent) }

driver == <<definitions, inferred_params, auth, pc, call, kinds, result,
            query_ctx>>

AddToParent ==
    /\ \E next \in Additions(parent) :
            /\ Entries(next) <= MaxEntries
            /\ parent' = next
    /\ UNCHANGED <<child, driver>>

CreateChild ==
    /\ child' = Some(create_child(parent))
    /\ UNCHANGED <<parent, driver>>

AddToChild ==
    /\ child.some
    /\ \E next \in Additions(child.v) :
            /\ Entries(next) <= MaxEntries
            /\ child' = Some(next)
    /\ UNCHANGED <<parent, driver>>

NextChild ==
    \/ AddToParent
    \/ CreateChild
    \/ AddToChild

SpecChild == Init /\ [][NextChild]_vars

(***************************************************************************)
(* Properties of analyze.  After a call the state holds the batch (call),  *)
(* the kinds collected (kinds), the outcome (result) and the context left. *)
(***************************************************************************)
Returns == pc = "done" /\ result.ok

\* The kind analyze_statement gives the last statement of the batch.  Every
\* statement before it has already been applied to the context, and no
\* statement's kind depends on what the statement itself adds to it.
LastStatementKind == analyze_statement(Context, call[Len(call)]).res.kind

DataStatements ==
    {"select", "create", "update", "upsert", "insert", "relate", "delete"}

C2_BatchIsLiteralArray ==
    /\ Returns
    /\ Len(call) >= 2
    /\ \A i \in 1..Len(call) : call[i].st \in DataStatements
    => result.kind = LitArray(kinds)

(***************************************************************************)
(* The schema the context holds, read off the definitions themselves.      *)
(***************************************************************************)
TableDefined(t) ==
    \E i \in 1..Len(definitions) :
        definitions[i].d = "table" /\ definitions[i].name = t

\* The positions of the DEFINE FIELD statements on table t.
FieldsOn(t) ==
    {i \in 1..Len(definitions) :
        definitions[i].d = "field" /\ definitions[i].what = t}

TypedFieldsOn(t) == {i \in FieldsOn(t) : definitions[i].kind.some}

\* F: the names of the typed fields of table t.
TypedFieldNames(t) ==
    {IdiomToString(definitions[i].name) : i \in TypedFieldsOn(t)}

\* The full schema of table t: every typed field under its name, with the
\* type of the latest definition of that name.
FullSchema(t) ==
    LitObject([n \in TypedFieldNames(t) |->
        LET same == {i \in TypedFieldsOn(t) :
                        IdiomToString(definitions[i].name) = n}
            latest == CHOOSE i \in same : \A j \in same : j <= i
        IN  definitions[latest].kind.v])

\* The positions of the definitions of exactly the path p on table t.
Declared(t, p) == {i \in FieldsOn(t) : definitions[i].name = p}

\* The definition find looks at: the first of them.
FirstDeclared(t, p) ==
    definitions[CHOOSE i \in Declared(t, p) : \A j \in Declared(t, p) : i <= j]

\* One statement has been analyzed, and it is of the kind st.
Single(st) == pc = "done" /\ Len(call) = 1 /\ call[1].st = st

\* The table name a table or record value stands for.
NamedTable(value) ==
    CASE value.v = "table" -> Some(value.name)
      [] value.v = "thing" -> Some(value.tb)
      [] OTHER -> None

MutationStatementKinds == {"create", "update", "upsert", "insert", "relate"}

\* The value that names the target of a mutation statement.
MutationTarget(stmt) ==
    CASE stmt.st = "insert" -> stmt.into
      [] stmt.st = "relate" -> stmt.kind
      [] OTHER -> stmt.what[1]

\* The payload of the statement mentions a parameter.
HasParam(stmt) ==
    /\ stmt.data.some
    /\ \/ /\ stmt.data.v.d = "content"
          /\ stmt.data.v.value.v = "object"
          /\ \E i \in 1..Len(stmt.data.v.value.pairs) :
                stmt.data.v.value.pairs[i][2].v = "param"
       \/ /\ stmt.data.v.d = "set"
          /\ \E i \in 1..Len(stmt.data.v.pairs) :
                stmt.data.v.pairs[i][2].v = "param"

\* C3: analyze on exactly one CREATE, UPDATE, UPSERT, INSERT or RELATE
\* statement whose target names a table returns Array<Array<full schema of
\* that table>> whenever it returns a type, and it returns one whenever the
\* payload holds no parameter.
C3_SingleMutationDoublyWrapped ==
    \A st \in MutationStatementKinds :
        Single(st) /\ NamedTable(MutationTarget(call[1])).some =>
            LET t == NamedTable(MutationTarget(call[1])).v
            IN  /\ result.ok =>
                    /\ kinds = <<KArray(FullSchema(t))>>
                    /\ result.kind = KArray(KArray(FullSchema(t)))
                /\ ~HasParam(call[1]) => result.ok

\* An UPDATE of a table with two typed fields has returned the doubly
\* wrapped schema.
C3_Witness ==
    /\ Single("update")
    /\ result = Ok(KArray(KArray(LitObject(
                    [name |-> KString, address |-> AddressKind]))))

\* C4: in every reachable context, a SELECT whose FROM target names a table
\* with no table definition fails with TableNotFound naming that table,
\* whatever its mode and field list.
C4_UndefinedTableNotFound ==
    Single("select") /\ NamedTable(call[1].what[1]).some =>
        LET t == NamedTable(call[1].what[1]).v
        IN  ~TableDefined(t) => result = Err(TableNotFound(t))

\* A SELECT of one named field from the undefined table ghost, in a context
\* that defines another table, has failed with TableNotFound("ghost").
C4_Witness ==
    /\ Single("select")
    /\ TableDefined("user")
    /\ call[1].what[1] = VTable("ghost")
    /\ call[1].expr = <<Plain(Idiom1("name"))>>
    /\ result = Err(TableNotFound("ghost"))

\* The statement analyzed is SELECT p FROM t (in any mode) for one path p.
SelectsPath ==
    /\ Single("select")
    /\ call[1].what[1].v = "table"
    /\ Len(call[1].expr) = 1
    /\ call[1].expr[1].f = "single"
    /\ call[1].expr[1].expr.v = "idiom"
    /\ ~call[1].omit.some

SelectedTable == call[1].what[1].name
SelectedPath == call[1].expr[1].expr.parts

\* C5: for every defined table t and every path p, plain or dotted, for
\* which no DEFINE FIELD p ON t has been analyzed, SELECT p FROM t fails
\* with FieldNotFound.
C5_UndeclaredFieldNotFound ==
    /\ SelectsPath
    /\ TableDefined(SelectedTable)
    /\ Declared(SelectedTable, SelectedPath) = {}
    => ~result.ok /\ result.err.e = "FieldNotFound"

\* C6: SELECT f FROM t of a field that is defined on t without a declared
\* type fails with a SchemaViolation error.
C6_UntypedFieldSchemaViolation ==
    /\ SelectsPath
    /\ TableDefined(SelectedTable)
    /\ Declared(SelectedTable, SelectedPath) # {}
    /\ ~FirstDeclared(SelectedTable, SelectedPath).kind.some
    => ~result.ok /\ result.err.e = "SchemaViolation"

C8_OnlyBareElseArray ==
    Single("select") /\ ~call[1].value /\ result.ok =>
        LET other == analyze_select(Context,
                                    [call[1] EXCEPT !.only = ~call[1].only])
        IN  /\ other.ok
            /\ IF call[1].only
               THEN /\ kinds[1].k = "litobject"
                    /\ other.kind = KArray(kinds[1])
               ELSE /\ other.kind.k = "litobject"
                    /\ kinds[1] = KArray(other.kind)

\* SELECT name FROM ONLY user has returned the bare object {name: string}.
C8_Witness ==
    /\ Single("select")
    /\ call[1].only
    /\ ~call[1].value
    /\ kinds = <<LitObject([name |-> KString])>>

\* The statement analyzed is SELECT * FROM t OMIT x for one top-level x.
SelectsAllOmitting ==
    /\ Single("select")
    /\ ~call[1].value
    /\ call[1].what[1].v = "table"
    /\ call[1].expr = <<FieldAll>>
    /\ call[1].omit.some
    /\ Len(call[1].omit.v) = 1
    /\ Len(call[1].omit.v[1]) = 1
    /\ ~call[1].fetch.some
    /\ TableDefined(SelectedTable)

OmittedName == IdiomToString(call[1].omit.v[1])

\* The keys of the object SELECT * OMIT x has produced.
KeysLeft == DOMAIN kinds[1].inner.fields

\* C9, as stated: for every table with typed field set F and every
\* top-level x in F, the keys of the object of SELECT * OMIT x, united with
\* {x}, are F.
C9_OmitRemovesExactlyOne ==
    SelectsAllOmitting /\ OmittedName \in TypedFieldNames(SelectedTable) =>
        /\ result.ok
        /\ KeysLeft \cup {OmittedName} = TypedFieldNames(SelectedTable)

\* The names of F that equal x when the case of the letters is ignored.
NamesLike(x, F) == {n \in F : ToLowercase(Trim(n)) = ToLowercase(Trim(x))}

\* C9, amended: SELECT * OMIT x removes every field of F whose name equals
\* x up to the case of its letters, and nothing else: the keys left and the
\* names like x are disjoint and together are F.
C9_OmitRemovesNamesLike ==
    SelectsAllOmitting /\ OmittedName \in TypedFieldNames(SelectedTable) =>
        LET F == TypedFieldNames(SelectedTable)
        IN  /\ result.ok
            /\ KeysLeft \cup NamesLike(OmittedName, F) = F
            /\ KeysLeft \cap NamesLike(OmittedName, F) = {}
            /\ \A n \in KeysLeft :
                  kinds[1].inner.fields[n] = FullSchema(SelectedTable).fields[n]

\* F = {name, Name} and SELECT * FROM user OMIT name has left no field.
C9_Witness ==
    /\ SelectsAllOmitting
    /\ OmittedName = "name"
    /\ TypedFieldNames(SelectedTable) = {"name", "Name"}
    /\ KeysLeft = {}

\* C10: analyze_delete returns the empty literal array for every DELETE
\* statement in every context, whether or not the target table is defined
\* and whether or not there is a WHERE clause; a batch that is one DELETE
\* returns it wrapped by analyze.
C10_DeleteIsEmptyArray ==
    /\ Single("delete") =>
            /\ kinds = <<LitArray(<<>>)>>
            /\ result = Ok(KArray(LitArray(<<>>)))
    /\ Returns =>
            \A i \in 1..Len(call) :
                call[i].st = "delete" => kinds[i] = LitArray(<<>>)

\* A DELETE with a WHERE clause on the undefined table ghost, in a context
\* with definitions, has returned the empty literal array.
C10_Witness ==
    /\ Single("delete")
    /\ definitions # <<>>
    /\ ~TableDefined("ghost")
    /\ call[1].what[1] = VTable("ghost")
    /\ call[1].cond
    /\ kinds = <<LitArray(<<>>)>>

(***************************************************************************)
(* Properties of parameter inference, on the context analyze_query reads   *)
(* the inferred parameters from.                                           *)
(***************************************************************************)
\* One query statement of the kind st has been analyzed on a clone.
Queried(st) == pc = "query" /\ Len(call) = 1 /\ call[1].st = st

UserSchema == LitObject([email |-> KString, age |-> KNumber])

\* C11: from a context that holds table user with the fields email: string
\* and age: number and no inferred parameter, CREATE user CONTENT $u leaves
\* exactly one inferred parameter, named u, of type {email: string,
\* age: number}.
C11_ContentParamIsTableSchema ==
    /\ Queried("create")
    /\ call[1] = Create(VTable("user"), Content(VParam("u")))
    /\ TableDefined("user")
    /\ FullSchema("user") = UserSchema
    /\ inferred_params = <<>>
    => /\ result.ok
       /\ query_ctx.inferred_params = << <<"u", UserSchema>> >>
       /\ query_ctx.definitions = definitions

\* CREATE user CONTENT $u has been analyzed on the schema user {email, age}
\* and u is recorded with that schema.
C11_Witness ==
    /\ Queried("create")
    /\ call[1] = Create(VTable("user"), Content(VParam("u")))
    /\ TableDefined("user")
    /\ FullSchema("user") = UserSchema
    /\ query_ctx.inferred_params = << <<"u", UserSchema>> >>

\* The parameters the clone holds after the query, as a set of pairs.
Recorded == {query_ctx.inferred_params[i] :
                i \in 1..Len(query_ctx.inferred_params)}

\* The payload of the statement is a bare parameter.
BareParamPayload(stmt) ==
    /\ stmt.data.some
    /\ stmt.data.v.d \in {"content", "merge", "patch", "replace", "single"}
    /\ stmt.data.v.value.v = "param"

\* The <<field path, value>> pairs the payload of the statement assigns.
PayloadPairs(stmt) ==
    IF ~stmt.data.some THEN <<>>
    ELSE IF stmt.data.v.d \in {"set", "values"} THEN stmt.data.v.pairs
    ELSE IF stmt.data.v.value.v = "object"
         THEN [i \in 1..Len(stmt.data.v.value.pairs) |->
                 <<Idiom1(stmt.data.v.value.pairs[i][1]),
                   stmt.data.v.value.pairs[i][2]>>]
         ELSE <<>>

\* C12: for each of CREATE, INSERT, UPDATE, UPSERT and RELATE, a payload
\* that is a bare parameter records that parameter with the full schema of
\* the target table, and a payload field assigned a parameter records that
\* parameter with the declared type of the field.
C12_PayloadParamsRecorded ==
    \A st \in MutationStatementKinds :
        Queried(st) /\ result.ok =>
            LET t == NamedTable(MutationTarget(call[1])).v
                pairs == PayloadPairs(call[1])
            IN  /\ BareParamPayload(call[1]) =>
                    <<call[1].data.v.value.name, FullSchema(t)>> \in Recorded
                /\ \A i \in 1..Len(pairs) :
                      /\ pairs[i][2].v = "param"
                      /\ Declared(t, pairs[i][1]) # {}
                      /\ FirstDeclared(t, pairs[i][1]).kind.some
                      => <<pairs[i][2].name,
                           FirstDeclared(t, pairs[i][1]).kind.v>> \in Recorded

\* The first definition of the table named r.
FirstTable(r) ==
    definitions[CHOOSE i \in 1..Len(definitions) :
        /\ definitions[i].d = "table" /\ definitions[i].name = r
        /\ \A j \in 1..(i - 1) :
              ~(definitions[j].d = "table" /\ definitions[j].name = r)]

\* r is declared TYPE RELATION FROM a TO b.
RelationFromTo(r, a, b) ==
    /\ TableDefined(r)
    /\ FirstTable(r).kind = TableRelation(RecordOf(a), RecordOf(b))

\* C13: for a relation table r declared TYPE RELATION FROM a TO b, a
\* parameter as the from operand of RELATE is recorded with the full schema
\* of a, a parameter as the to operand with the full schema of b, and
\* RELATE $x->r->$y on a context without parameters records exactly the two
\* parameters x and y.
C13_RelateEndpointsInferred ==
    \A a, b \in {"user", "post"} :
        /\ Queried("relate")
        /\ call[1].kind.v = "table"
        /\ RelationFromTo(call[1].kind.name, a, b)
        /\ ~call[1].data.some
        /\ inferred_params = <<>>
        => LET from == call[1].from
               with == call[1].with
               x == <<from.name, FullSchema(a)>>
               y == <<with.name, FullSchema(b)>>
           IN  /\ result.ok
               /\ query_ctx.inferred_params =
                    (IF from.v = "param" THEN <<x>> ELSE <<>>)
                    \o (IF with.v = "param" THEN <<y>> ELSE <<>>)

\* RELATE $x->likes->$y has recorded x with the schema of user and y with
\* the schema of post.
C13_Witness ==
    /\ Queried("relate")
    /\ RelationFromTo("likes", "user", "post")
    /\ query_ctx.inferred_params =
          << <<"x", LitObject([email |-> KString])>>,
             <<"y", LitObject([title |-> KString])>> >>

\* What a context exposes: its schema, function, index and event state
\* and the type of every parameter.
Exposed(self) ==
    [tables |-> [n \in {"user", "post"} |-> get_table_type(self, n)],
     parameters |-> [n \in {"p", "q"} |-> get_parameter_type(self, n)],
     schema |-> self.schema,
     functions |-> self.functions,
     indexes |-> self.indexes,
     events |-> self.events]

\* C14: create_child returns a context whose schema, function, index and
\* event state are the parent's at the fork and whose parameter set is
\* empty; afterwards a step that changes the child leaves the parent as it
\* is, and a step that changes the parent leaves the child as it is.
C14_ChildIsolated ==
    [][ /\ CreateChild =>
            /\ child'.some
            /\ child'.v.schema = parent.schema
            /\ child'.v.functions = parent.functions
            /\ child'.v.indexes = parent.indexes
            /\ child'.v.events = parent.events
            /\ DOMAIN child'.v.params.parameters = {}
        /\ AddToChild => Exposed(parent') = Exposed(parent)
        /\ (AddToParent /\ child.some) => Exposed(child'.v) = Exposed(child.v)
      ]_vars

\* The parent got a table and a parameter, was forked, and the child then
\* got a parameter of its own.
C14_Witness ==
    /\ child.some
    /\ get_table_type(parent, "user").some
    /\ get_table_type(child.v, "user").some
    /\ get_parameter_type(parent, "q").some
    /\ ~get_parameter_type(child.v, "q").some
    /\ get_parameter_type(child.v, "p").some
    /\ ~get_parameter_type(parent, "p").some
\* A Record variant somewhere in a kind.
RECURSIVE HasRecord(_)
HasRecord(kind) ==
    CASE kind.k = "record" -> TRUE
      [] kind.k \in {"array", "option"} -> HasRecord(kind.inner)
      [] kind.k = "either" ->
            \E i \in 1..Len(kind.kinds) : HasRecord(kind.kinds[i])
      [] kind.k = "litarray" ->
            \E i \in 1..Len(kind.elems) : HasRecord(kind.elems[i])
      [] kind.k = "litobject" ->
            \E key \in DOMAIN kind.fields : HasRecord(kind.fields[key])
      [] OTHER -> FALSE

\* SELECT author FROM post FETCH author has returned, in a schema where
\* post is defined and author is declared on it first as record<user>.
FetchedAuthor ==
    /\ pc = "done"
    /\ call = <<Select(VTable("post"), FALSE, FALSE,
                       <<Plain(Idiom1("author"))>>, None, FetchAuthor)>>
    /\ TableDefined("post")
    /\ Declared("post", Idiom1("author")) # {}
    /\ FirstDeclared("post", Idiom1("author")).kind
            = Some(KRecord(<<"user">>))

GraphAnalyzed == pc = "done" /\ Len(call) = 1 /\ call[1].st = "graph"

PathHops == SelectSeq(call[1].idiom, IsGraph)

PathModifier == call[1].idiom[Len(call[1].idiom)]

DirectedHops ==
    \A i \in 1..Len(PathHops) : PathHops[i].dir \in {"In", "Out"}

HopKey(hop) ==
    (IF hop.dir = "Out" THEN "->" ELSE "<-") \o hop.what[1].name

\* What the innermost array holds for the last table tn.
Innermost(tn) ==
    CASE PathModifier.p = "graph" -> KRecord(<<tn>>)
      [] PathModifier.p = "all" -> FullSchema(tn)
      [] PathModifier.p = "destructure" ->
            LitObject([n \in {m \in TypedFieldNames(tn) :
                                \E i \in 1..Len(PathModifier.fields) :
                                    PathModifier.fields[i] = m}
                          |-> FullSchema(tn).fields[n]])

\* The nested objects from hop i inwards.
RECURSIVE Nested(_)
Nested(i) ==
    LitObject(MapInsert(EmptyMap, HopKey(PathHops[i]),
        IF i = Len(PathHops)
        THEN LitArray(<<Innermost(PathHops[i].what[1].name)>>)
        ELSE Nested(i + 1)))

\* C16: for hops h1..hn, all of them -> or <-, analyze_graph_path returns n
\* nested single-key objects keyed by the arrow and table of each hop in
\* path order; every outer hop maps directly to the next object, and the
\* innermost maps to a one-element literal array of record<tn>, of the
\* full schema of tn (.*) or of that schema restricted to the listed
\* fields (.{..}).
C16_GraphPathNesting ==
    GraphAnalyzed /\ DirectedHops => result = Ok(Nested(1))

\* Three hops ending in a restriction to a declared field of org.
C16_Witness ==
    /\ GraphAnalyzed
    /\ DirectedHops
    /\ Len(PathHops) = 3
    /\ PathHops[1].dir # PathHops[2].dir
    /\ PathModifier.p = "destructure"
    /\ result.ok
    /\ result.kind.fields[HopKey(PathHops[1])]
              .fields[HopKey(PathHops[2])]
              .fields[HopKey(PathHops[3])]
           = LitArray(<<LitObject([name |-> KString])>>)
\* The context statement number i of a batch is analyzed in, when every
\* statement before it has been analyzed in turn from ctx.
RECURSIVE ContextBefore(_, _, _)
ContextBefore(ctx, statements, i) ==
    IF i = 1 THEN ctx
    ELSE analyze_statement(ContextBefore(ctx, statements, i - 1),
                           statements[i - 1]).ctx

StepOf(ctx, statements, i) ==
    analyze_statement(ContextBefore(ctx, statements, i), statements[i])

\* The statements of a batch whose analysis fails.
Failing(ctx, statements) ==
    {i \in 1..Len(statements) : ~StepOf(ctx, statements, i).res.ok}

\* The error analyze reports for the error err of statement number i.
Reported(err, i) ==
    IF err = UnexpectedSyntax THEN UnexpectedSyntaxWithContext(i) ELSE err

\* What a call of analyze that met the failing statements F leaves.
StopsAtFirst(ctx, statements, F) ==
    /\ result'.ok <=> F = {}
    /\ F # {} =>
          LET first == CHOOSE i \in F : \A j \in F : i <= j
              step == StepOf(ctx, statements, first)
          IN  /\ result' = Err(Reported(step.res.err, first))
              /\ definitions' = step.ctx.definitions
              /\ inferred_params' = step.ctx.inferred_params
              /\ auth' = step.ctx.auth

Edits(stmt) ==
    \/ stmt.st = "remove" /\ stmt.r \in {"table", "field"}
    \/ stmt.st = "alter" /\ stmt.a = "table"

\* The statement names a table or an exact field path that defs does not
\* define.
Undefined(defs, stmt) ==
    IF stmt.st = "remove" /\ stmt.r = "field"
    THEN ~\E i \in 1..Len(defs) :
            /\ defs[i].d = "field"
            /\ defs[i].what = stmt.what
            /\ defs[i].name = stmt.name
    ELSE ~\E i \in 1..Len(defs) :
            defs[i].d = "table" /\ defs[i].name = stmt.name

NotFoundError(stmt) ==
    IF stmt.st = "remove" /\ stmt.r = "field"
    THEN FieldNotFound(IdiomToString(stmt.name), "table " \o stmt.what)
    ELSE TableNotFound(stmt.name)

SelectAllFrom(t) ==
    Select(VTable(t), FALSE, FALSE, <<FieldAll>>, None, None)

\* What the claim asks of the call of analyze on the one statement stmt.
EditOutcome(stmt) ==
    IF Undefined(definitions, stmt)
    THEN /\ definitions' = definitions
         /\ result' = IF stmt.if_exists THEN Ok(KArray(KNull))
                       ELSE Err(NotFoundError(stmt))
    ELSE /\ result' = Ok(KArray(KNull))
         /\ stmt.st = "remove" => Undefined(definitions', stmt)
         /\ stmt.st = "remove" /\ stmt.r = "table" =>
                analyze_statement(Context', SelectAllFrom(stmt.name)).res
                    = Err(TableNotFound(stmt.name))

\* C18: REMOVE TABLE, REMOVE FIELD and ALTER TABLE on a table or an exact
\* field path without a definition fail with TableNotFound or
\* FieldNotFound and leave the context as it is, or return Null when IF
\* EXISTS is there; on a defined one they succeed, the removed definition
\* is gone and a SELECT from a removed table fails with TableNotFound.
C18_RemoveAlterMissingFails ==
    [][ (pc = "idle" /\ pc' = "done" /\ Len(call') = 1 /\ Edits(call'[1]))
            => EditOutcome(call'[1]) ]_vars
\* A DEFINE FIELD or DEFINE INDEX statement.
DefinesOnTable(stmt) == stmt.st = "define" /\ stmt.def.d \in {"field", "index"}

\* What the claim asks of the call of analyze on the one DEFINE stmt.
DefineOutcome(stmt) ==
    IF TableDefined(stmt.def.what)
    THEN /\ result' = Ok(KArray(KNull))
         /\ definitions' = Append(definitions, stmt.def)
    ELSE /\ ~result'.ok
         /\ definitions' = definitions

\* C19: a DEFINE FIELD or DEFINE INDEX whose table has no DEFINE TABLE
\* earlier in the session is rejected with an error and not appended; it is
\* accepted, and appended, once the table has been defined.
C19_DefineNeedsTable ==
    [][ (/\ pc = "idle" /\ pc' = "done" /\ Len(call') = 1
         /\ DefinesOnTable(call'[1]))
            => DefineOutcome(call'[1]) ]_vars

\* The call analyze_function answered, and its name and arguments.
FunctionAnalyzed == pc = "done" /\ call # <<>> /\ call[1].st = "function"
CalledName == call[1].func.name
CalledArgs == call[1].func.args

\* The built-in functions among the names called, each with the numbers of
\* arguments it takes, and the custom functions the context defines.
BuiltinArity ==
    [n \in { <<"math", c>> : c \in MathConstants } |-> {0}]
    @@ [n \in { <<"math", f>> : f \in MathSingleNumber \cup MathAggregates }
            |-> {1}]
    @@ [n \in { <<"math", f>> : f \in {"fixed", "log", "pow", "bottom", "top"} }
            |-> {2}]
    @@ [n \in { <<"math", f>> : f \in {"clamp", "lerp", "lerpangle"} } |-> {3}]
    @@ (<<"record", "exists">> :> {1})
    @@ (<<"session", "id">> :> {0})
    @@ (<<"sleep">> :> {1})
    @@ (<<"count">> :> {0, 1})
    @@ (<<"meta", "id">> :> {1})
    @@ (<<"encoding", "base64", "encode">> :> {1, 2})
    @@ (<<"http", "head">> :> {1, 2})
    @@ (<<"http", "get">> :> {1, 2})

CustomDefined(name) ==
    \E i \in 1..Len(definitions) :
        /\ definitions[i].d = "function"
        /\ name \in {<<"fn", definitions[i].name>>, <<definitions[i].name>>}

\* The argument at position i of a math function is of the type it takes.
MathArgTyped(name, args, i) ==
    IF name[2] \in MathAggregates \cup {"bottom", "top"} /\ i = 1
    THEN args[i].v = "array"
    ELSE args[i].v = "number"

WrongArguments(name, args) ==
    \/ Len(args) \notin BuiltinArity[name]
    \/ /\ name[1] = "math"
       /\ \E i \in 1..Len(args) : ~MathArgTyped(name, args, i)

\* C20: a call whose name is neither a built-in function nor a defined
\* custom function fails with FunctionNotFound, and a call of a built-in
\* function with the wrong number or type of arguments fails with
\* UnexpectedSyntax.
C20_UnknownOrMalformedCallFails ==
    (FunctionAnalyzed /\ CalledName # <<>>) =>
        IF CalledName \in DOMAIN BuiltinArity
        THEN WrongArguments(CalledName, CalledArgs)
                => result = Err(UnexpectedSyntax)
        ELSE ~CustomDefined(CalledName)
                => (~result.ok /\ result.err.e = "FunctionNotFound")

\* The relation the claim states: Any either way, identical types, a string,
\* number or bool literal with its base type, Array and Option by their
\* inner types, a non-optional value with an Option parameter, Record types
\* by their sets of table names.
TableSet(kind) == {kind.tables[i] : i \in 1..Len(kind.tables)}

RECURSIVE Compatible(_, _)
Compatible(arg_type, param_type) ==
    \/ arg_type = KAny
    \/ param_type = KAny
    \/ arg_type = param_type
    \/ arg_type.k = "litstring" /\ param_type = KString
    \/ arg_type.k = "litnumber" /\ param_type = KNumber
    \/ arg_type.k = "litbool" /\ param_type = KBool
    \/ /\ arg_type.k = "array" /\ param_type.k = "array"
       /\ Compatible(arg_type.inner, param_type.inner)
    \/ /\ arg_type.k = "option" /\ param_type.k = "option"
       /\ Compatible(arg_type.inner, param_type.inner)
    \/ /\ arg_type.k # "option" /\ param_type.k = "option"
       /\ Compatible(arg_type, param_type.inner)
    \/ /\ arg_type.k = "record" /\ param_type.k = "record"
       /\ TableSet(arg_type) = TableSet(param_type)

\* The parameter type of the function a call names, when it is defined.
CalledDefinition ==
    find_function_definition(Context, JoinName(call[1].func.name))

\* C21: is_argument_compatible answers as the relation of the specification
\* on every pair of types, and a call whose one argument is not compatible
\* with the parameter fails with InvalidFunctionCall, any other succeeds.
C21_ArgumentCompatibility ==
    /\ (pc = "done" /\ call # <<>> /\ call[1].st = "compatible")
          => result.kind = Compatible(call[1].arg_type, call[1].param_type)
    /\ (FunctionAnalyzed /\ CalledDefinition.some)
          => IF Compatible(resolve(CalledArgs[1]),
                           CalledDefinition.v.args[1][2])
             THEN result.ok
             ELSE ~result.ok /\ result.err.e = "InvalidFunctionCall"

\* The candidates the claim names for a block: the types of its RETURN
\* expressions and of every arm of its conditional branches, an arm that is
\* a block having the type synthesized for that block.
RECURSIVE Synthesized(_)
RECURSIVE Candidates(_)
RECURSIVE ArmTypes(_)
ArmTypes(bodies) ==
    IF bodies = <<>> THEN <<>>
    ELSE <<IF bodies[1].v = "block" THEN Synthesized(bodies[1].block)
           ELSE resolve(bodies[1])>> \o ArmTypes(Tail(bodies))
Candidates(block) ==
    IF block = <<>> THEN <<>>
    ELSE (CASE block[1].en = "output" -> <<resolve(block[1].what)>>
            [] block[1].en = "ifelse" ->
                  ArmTypes(block[1].exprs
                               \o (IF block[1].close.some
                                   THEN <<block[1].close.v>> ELSE <<>>))
            [] OTHER -> <<>>) \o Candidates(Tail(block))
Synthesized(block) ==
    LET found == Candidates(block)
    IN  IF found = <<>> THEN KNull
        ELSE IF Len(found) = 1 THEN found[1]
        ELSE KEither(Dedup(SortByKey(found)))

BlockAnalyzed == pc = "done" /\ call # <<>> /\ call[1].st = "block"

DuplicateFree(ks) == \A i, j \in 1..Len(ks) : ks[i] = ks[j] => i = j

\* C22: the type of a block is Null without candidates, the candidate when
\* there is one, and with more than one an Either without duplicates whose
\* arms are the candidates.
C22_BlockTypeFromCandidates ==
    BlockAnalyzed =>
        LET found == Candidates(call[1].block)
        IN  IF found = <<>> THEN result = Ok(KNull)
            ELSE IF Len(found) = 1 THEN result = Ok(found[1])
            ELSE /\ result.ok
                 /\ result.kind.k = "either"
                 /\ DuplicateFree(result.kind.kinds)
                 /\ {result.kind.kinds[i] : i \in 1..Len(result.kind.kinds)}
                       = {found[i] : i \in 1..Len(found)}

\* The parameters a call of analyze on the statements discovers: those it
\* leaves in a context that held none before.
Discovered(statements) ==
    analyze([Context EXCEPT !.inferred_params = <<>>], statements)
        .ctx.inferred_params

\* C23: after every call of analyze on the context, the list of inferred
\* parameters holds the pairs discovered in that call and no pair of an
\* earlier call.
C23_ParamsOfLastQueryOnly ==
    [][ (pc = "idle" /\ pc' = "done")
            => inferred_params' = Discovered(call') ]_vars

\* A single SELECT whose FROM target is the parameter $auth was analyzed.
SelectsFromAuth ==
    /\ pc = "done"
    /\ Len(call) = 1
    /\ call[1].st = "select"
    /\ call[1].what[1].v = "param"
    /\ call[1].what[1].name = "auth"

\* C24: SELECT .. FROM $auth is analyzed as the SELECT from the table of the
\* auth subject of the context, and fails with MissingAuth when the context
\* has no auth subject.
C24_AuthTargetOrMissingAuth ==
    SelectsFromAuth =>
        IF auth.some
        THEN result = analyze(Context,
                              <<[call[1] EXCEPT !.what = <<VTable(auth.v)>>]>>)
                          .result
        ELSE result = Err(MissingAuth)

\* build_full_table_type has answered for the table call[1].table.
FullTypeBuilt == pc = "done" /\ call # <<>> /\ call[1].st = "full_type"

\* The declared types of the typed fields of table t that are named n.
DeclaredTypes(t, n) ==
    {definitions[i].kind.v :
        i \in {j \in TypedFieldsOn(t) : IdiomToString(definitions[j].name) = n}}

\* C25: build_full_table_type(t) succeeds with a Literal::Object whose keys
\* are exactly the names of the fields defined on t with a type, each with
\* a type declared for that field on t (the one declared last).
C25_FullTypeIsTypedFields ==
    FullTypeBuilt =>
        /\ result.ok
        /\ result.kind.k = "litobject"
        /\ DOMAIN result.kind.fields = TypedFieldNames(call[1].table)
        /\ \A n \in DOMAIN result.kind.fields :
              result.kind.fields[n] \in DeclaredTypes(call[1].table, n)
        /\ result.kind = FullSchema(call[1].table)

\* The full type of user was built in a context that also holds an untyped
\* field of user and a field of post, and it has a key.
C25_Witness ==
    /\ FullTypeBuilt
    /\ call[1].table = "user"
    /\ TypedFieldsOn("user") # {}
    /\ FieldsOn("user") # TypedFieldsOn("user")
    /\ FieldsOn("post") # {}
    /\ DOMAIN result.kind.fields # {}

\* find_field_definition has answered for call[1].table and call[1].path.
FieldLooked == pc = "done" /\ call # <<>> /\ call[1].st = "find_field"

\* The lengths of the prefixes of path p that have a definition on table t.
DefinedPrefixes(t, p) ==
    {n \in 1..Len(p) : Declared(t, SubSeq(p, 1, n)) # {}}

\* C26: find_field_definition(t, p) returns a definition, on table t, of the
\* longest prefix of p that has one, and None when no prefix has one.
C26_LongestDefinedPrefix ==
    FieldLooked =>
        LET t == call[1].table
            p == call[1].path
            lengths == DefinedPrefixes(t, p)
        IN  IF lengths = {} THEN result.kind = None
            ELSE LET longest == CHOOSE n \in lengths : \A m \in lengths : m <= n
                 IN  /\ result.kind.some
                     /\ \E i \in Declared(t, SubSeq(p, 1, longest)) :
                           result.kind.v = definitions[i]

\* A call of analyze on one DEFINE TABLE or DEFINE FIELD statement.
DefinesTableOrField(statements) ==
    /\ Len(statements) = 1
    /\ statements[1].st = "define"
    /\ statements[1].def.d \in {"table", "field"}

\* The boolean-compatible types: Bool, Any, and a union of such types.
RECURSIVE BooleanCompatible(_)
BooleanCompatible(kind) ==
    \/ kind \in {KBool, KAny}
    \/ /\ kind.k = "either"
       /\ \A i \in 1..Len(kind.kinds) : BooleanCompatible(kind.kinds[i])

\* The types the PERMISSIONS expressions of definition def resolve to.
PermissionTypes(def) ==
    { resolve(clause.value) :
        clause \in { c \in { def.permissions.select, def.permissions.create,
                             def.permissions.update, def.permissions.delete } :
                        c.perm = "specific" } }

\* The type the ASSERT expression of definition def resolves to, if def
\* has one and it resolves.
AssertTypes(ctx, def) ==
    IF def.d = "field" /\ def.assert.some
    THEN LET typed == analyze_value_expression(ctx, def.assert.v)
         IN  IF typed.ok THEN {typed.kind} ELSE {}
    ELSE {}

\* The types of def's expressions that are not boolean-compatible.
NotBoolean(ctx, def) ==
    { kind \in PermissionTypes(def) \cup AssertTypes(ctx, def) :
        ~BooleanCompatible(kind) }

\* The places of a definition's expressions, as the error message names them.
ClauseNames(def) ==
    IF def.d = "table"
    THEN {"Error in table '" \o def.name \o "' permissions: "}
    ELSE {"Error in field '" \o def.what \o "." \o IdiomToString(def.name)
              \o "' " \o clause :
            clause \in {"permissions: ", "assert clause: "}}

\* C27 (as stated): a DEFINE TABLE or DEFINE FIELD with a permission or ASSERT
\* expression of a type that is not boolean-compatible fails with a
\* TypeMismatch error that expected a boolean, and the definition is not
\* appended.
C27_NotBooleanIsTypeMismatch ==
    [][ (pc = "idle" /\ pc' = "done" /\ DefinesTableOrField(call')
            /\ NotBoolean(Context, call'[1].def) # {})
            => /\ ~result'.ok
               /\ result'.err.e = "TypeMismatch"
               /\ result'.err.expected = "boolean"
               /\ definitions' = definitions ]_vars

\* C27 (amended): such a DEFINE fails with a SchemaViolation error on the
\* table (and field) whose message is the place of the expression followed
\* by the text of a TypeMismatch that expected a boolean and found one of the
\* types that are not boolean-compatible, and the definition is not appended.
C27_NotBooleanIsSchemaViolation ==
    [][ (pc = "idle" /\ pc' = "done" /\ DefinesTableOrField(call')
            /\ NotBoolean(Context, call'[1].def) # {})
            => LET def == call'[1].def
               IN  /\ ~result'.ok
                   /\ result'.err.e = "SchemaViolation"
                   /\ result'.err.table
                         = Some(IF def.d = "table" THEN def.name
                                ELSE def.what)
                   /\ \E place \in ClauseNames(def),
                         kind \in NotBoolean(Context, def) :
                           result'.err.message
                             = place \o Display(TypeMismatch("boolean",
                                                             Debug(kind)))
                   /\ definitions' = definitions ]_vars

\* A DEFINE FIELD whose ASSERT calls a function that returns bool | string
\* was refused while the function was defined.
C27_Witness ==
    /\ pc = "done"
    /\ DefinesTableOrField(call)
    /\ call[1].def.d = "field"
    /\ call[1].def.assert
          = Some(VFunction(FunctionCall(<<"fn", "mixed">>, <<>>)))
    /\ NotBoolean(Context, call[1].def) = {KEither(<<KBool, KString>>)}
    /\ ~result.ok
    /\ result.err.e = "SchemaViolation"

\* C28: when the analysis of a single statement returns an error, the context
\* it was given is left as it was: the definitions and the inferred
\* parameters of the generator's context after a failing schema statement,
\* and those of the clone after a failing query, are the ones before it.
C28_FailingStatementLeavesContext ==
    [][ (pc = "idle" /\ pc' \in {"done", "query"} /\ Len(call') = 1
            /\ ~result'.ok)
            => IF pc' = "query" THEN query_ctx' = Context
               ELSE /\ definitions' = definitions
                    /\ inferred_params' = inferred_params
                    /\ auth' = auth ]_vars

\* SELECT f FROM t and then SELECT * FROM t were analyzed in one call, and
\* both returned a type.
FieldAndAllSelected ==
    /\ pc = "done"
    /\ Len(call) = 2
    /\ call[1].st = "select"
    /\ call = FieldThenAll(call[1].what[1].name,
                           call[1].expr[1].expr.parts[1].name)
    /\ result.ok

\* C29: after any sequence of DEFINE FIELD statements, the type SELECT f FROM
\* t reports for f is the type under key f in the result of SELECT * FROM t.
C29_FieldAgreesWithWildcard ==
    FieldAndAllSelected =>
        LET f == call[1].expr[1].expr.parts[1].name
        IN  /\ f \in DOMAIN kinds[2].inner.fields
            /\ kinds[1].inner.fields[f] = kinds[2].inner.fields[f]

\* In context ctx every parameter name is listed once, and the type looked
\* up under a name is the type of every pair listed under it.
OneTypePerParam(ctx) ==
    LET all == get_all_inferred_params(ctx)
    IN  /\ \A i, j \in 1..Len(all) : all[i][1] = all[j][1] => i = j
        /\ \A i \in 1..Len(all) :
              get_inferred_param(ctx, all[i][1]) = Some(all[i][2])

\* C30: in every reachable context, the generator's and the clone a query
\* was analysed on, each parameter name appears at most once in the list of
\* inferred parameters, so that get_inferred_param and
\* get_all_inferred_params agree on one type per parameter.
C30_OneTypePerParam ==
    OneTypePerParam(Context) /\ OneTypePerParam(query_ctx)
====
